---- MODULE Spec2Model ----
(***************************************************************************)
(* RailNav backend (backend/app.py): the pedestrian routing graph engine.  *)
(*                                                                         *)
(* Spec        one /api/navigation request, stage by stage, on a small     *)
(*             map: query parameters, fetch, build, resolve, search, road  *)
(*             fallback, assemble.                                         *)
(* SpecSP      _shortest_path run step by step on an arbitrary directed    *)
(*             adjacency-list graph with non-negative integer weights.     *)
(* SpecBuild   _build_graph and _build_hybrid_graph applied to a node      *)
(*             table and lists of classified ways.                         *)
(* SpecHybrid  the two builders followed by _shortest_path on both graphs  *)
(*             for the same start and goal.                                *)
(* SpecFetch   _fetch_pedestrian_ways applied to the elements of a         *)
(*             response, followed by _build_graph.                         *)
(*                                                                         *)
(* Coordinates: every point of the model lies on one meridian, and its     *)
(* latitude is given as metres of arc along it.  On a meridian the         *)
(* haversine distance is R * |dphi|, i.e. the absolute difference of the   *)
(* two values, so distances are integers and add up exactly.               *)
(***************************************************************************)
EXTENDS Integers, Sequences, FiniteSets, TLC

VARIABLES
  graph,     \* _shortest_path: node id -> sequence of <<neighbour, weight>>
  start,     \* _shortest_path: start node
  goal,      \* _shortest_path: goal node
  dist,      \* _shortest_path: tentative distances (a dict: partial function)
  prev,      \* _shortest_path: predecessor map (a dict: partial function)
  heap,      \* _shortest_path: the frontier, a set of <<distance, node>>
  visited,   \* _shortest_path: the settled set
  pc,        \* position in the code
  path,      \* _shortest_path: the returned sequence
  popped,    \* history: the nodes in the order the loop settled them
  nodes,     \* node table: node id -> latitude (metres of arc)
  ways,      \* pedestrian ways: sequence of [nodes, category]
  highway_ways,       \* road ways: sequence of [nodes, category]
  edge_types,         \* _build_graph: frozenset({u, v}) -> category
  hybrid_graph,       \* _build_hybrid_graph: the merged graph
  hybrid_edge_types,  \* _build_hybrid_graph: frozenset({u, v}) -> category
  hybrid_path,        \* _shortest_path on the hybrid graph
  origin,             \* navigation: the origin point (latitude)
  dest,               \* navigation: the destination point (latitude)
  origin_node,        \* navigation: resolved origin node or None
  dest_node,          \* navigation: resolved destination node or None
  highway_nodes,      \* navigation: node table of the road fetch
  all_nodes,          \* navigation: {**osm_nodes, **highway_nodes}
  hybrid_origin_node, \* navigation: origin resolved in the hybrid graph
  hybrid_dest_node,   \* navigation: destination resolved in the hybrid graph
  use_highways,       \* navigation: the road-fallback flag
  response,           \* navigation: the JSON response, or None
  events,             \* history: the stages of the request in order
  attempts,           \* history: the _nearest_node calls of the staged loop
  args,               \* navigation: request.args, name -> characters
  data,               \* _fetch_pedestrian_ways: the elements of the response
  effective_radius,   \* navigation: the radius the fetches are made with
  url_index,          \* _fetch_overpass_data: position of the loop in OverpassURLs
  contacted,          \* history: the endpoints posted to, with what each did
  last_error,         \* _fetch_overpass_data: last_error
  fetched,            \* _fetch_overpass_data: what the call returned or raised
  cache,              \* the data directory: station key -> content of its file
  clock,              \* the time datetime.utcnow() reads
  last_call,          \* get_or_refresh_facilities: the last call and its outcome
  stored              \* history: station key -> payload of its last refresh

spVars == <<dist, prev, heap, visited, popped>>
buildVars == <<nodes, ways, highway_ways, edge_types, hybrid_graph,
               hybrid_edge_types, hybrid_path>>
reqVars == <<args, data, effective_radius>>
overpassVars == <<url_index, contacted, last_error, fetched>>
facilityVars == <<cache, clock, last_call, stored>>
navVars == <<origin, dest, origin_node, dest_node, highway_nodes, all_nodes,
             hybrid_origin_node, hybrid_dest_node, use_highways, response,
             events, attempts, args, data, effective_radius,
             url_index, contacted, last_error, fetched,
             cache, clock, last_call, stored>>
vars == <<graph, start, goal, dist, prev, heap, visited, pc, path, popped,
          nodes, ways, highway_ways, edge_types, hybrid_graph,
          hybrid_edge_types, hybrid_path, origin, dest, origin_node, dest_node,
          highway_nodes, all_nodes, hybrid_origin_node, hybrid_dest_node,
          use_highways, response, events, attempts, args, data,
          effective_radius, url_index, contacted, last_error, fetched,
          cache, clock, last_call, stored>>

-----------------------------------------------------------------------------
(* Bounds of the model.                                                    *)

NumNodes == 3
MaxEdges == 3
MaxWeight == 2

MaxWays == 2
MaxWayLen == 3

NodeIds == 1..NumNodes
Weights == 0..MaxWeight

\* latitudes the node table draws from
Lats == {0, 100, 400}

\* Python's None in the predecessor map; node ids are positive.
None == 0

-----------------------------------------------------------------------------
(* Small helpers.                                                          *)

RECURSIVE SeqsUpTo(_, _)
SeqsUpTo(S, n) ==
  IF n = 0 THEN {<<>>}
  ELSE LET shorter == SeqsUpTo(S, n - 1)
       IN shorter \cup {Append(s, x) : s \in {t \in shorter : Len(t) = n - 1}, x \in S}

Reverse(s) == [i \in 1..Len(s) |-> s[Len(s) + 1 - i]]

\* dict.get(key, []) on an adjacency dict
Adj(g, u) == IF u \in DOMAIN g THEN g[u] ELSE <<>>

\* appending to graph[u] of a defaultdict(list)
AddEntry(g, u, e) ==
  [k \in DOMAIN g \cup {u} |-> IF k = u THEN Append(Adj(g, u), e) ELSE g[k]]

EmptyMap == [k \in {} |-> 0]

\* an arbitrary directed graph given as the list of its adjacency entries
RECURSIVE GraphOfEntries(_)
GraphOfEntries(es) ==
  IF es = <<>> THEN EmptyMap
  ELSE LET e == es[Len(es)]
       IN AddEntry(GraphOfEntries(SubSeq(es, 1, Len(es) - 1)), e[1], <<e[2], e[3]>>)

-----------------------------------------------------------------------------
(* _shortest_path (app.py 670-705).                                        *)

\* tuple order of heapq on (distance, node)
TupleLess(a, b) == a[1] < b[1] \/ (a[1] = b[1] /\ a[2] < b[2])

HeapMin(h) == CHOOSE e \in h : \A f \in h : f = e \/ TupleLess(e, f)

\* Relax with "v not in dist" in place of the comparison: the first discovery wins
RECURSIVE RelaxFirstWins(_, _, _, _, _)
RelaxFirstWins(adj, i, u, d, st) ==
  IF i > Len(adj) THEN st
  ELSE LET v  == adj[i][1]
           nd == d + adj[i][2]
       IN IF v \notin DOMAIN st.dist
          THEN RelaxFirstWins(adj, i + 1, u, d,
                 [dist |-> [k \in DOMAIN st.dist \cup {v} |->
                              IF k = v THEN nd ELSE st.dist[k]],
                  prev |-> [k \in DOMAIN st.prev \cup {v} |->
                              IF k = v THEN u ELSE st.prev[k]],
                  heap |-> st.heap \cup {<<nd, v>>}])
          ELSE RelaxFirstWins(adj, i + 1, u, d, st)

\* Relax that stops one entry short of the end of the adjacency list
RECURSIVE RelaxSkipLast(_, _, _, _, _)
RelaxSkipLast(adj, i, u, d, st) ==
  IF i >= Len(adj) THEN st
  ELSE LET v  == adj[i][1]
           nd == d + adj[i][2]
       IN IF v \notin DOMAIN st.dist \/ nd < st.dist[v]
          THEN RelaxSkipLast(adj, i + 1, u, d,
                 [dist |-> [k \in DOMAIN st.dist \cup {v} |->
                              IF k = v THEN nd ELSE st.dist[k]],
                  prev |-> [k \in DOMAIN st.prev \cup {v} |->
                              IF k = v THEN u ELSE st.prev[k]],
                  heap |-> st.heap \cup {<<nd, v>>}])
          ELSE RelaxSkipLast(adj, i + 1, u, d, st)

\* the for loop over graph.get(u, []) from entry i on
RECURSIVE Relax(_, _, _, _, _)
Relax(adj, i, u, d, st) ==
  IF i > Len(adj) THEN st
  ELSE LET v  == adj[i][1]
           nd == d + adj[i][2]
       IN IF v \notin DOMAIN st.dist \/ nd < st.dist[v]
          THEN Relax(adj, i + 1, u, d,
                 [dist |-> [k \in DOMAIN st.dist \cup {v} |->
                              IF k = v THEN nd ELSE st.dist[k]],
                  prev |-> [k \in DOMAIN st.prev \cup {v} |->
                              IF k = v THEN u ELSE st.prev[k]],
                  heap |-> st.heap \cup {<<nd, v>>}])
          ELSE Relax(adj, i + 1, u, d, st)

\* the reconstruction loop: cur, and the path collected so far (goal first)
RECURSIVE WalkBack(_, _, _)
WalkBack(pv, cur, acc) ==
  IF cur \in DOMAIN pv /\ pv[cur] # None
  THEN WalkBack(pv, pv[cur], Append(acc, pv[cur]))
  ELSE acc

\* Reconstruct without path.reverse()
ReconstructNoReverse(pv, s, g) ==
  IF g \notin DOMAIN pv /\ g # s THEN <<>>
  ELSE LET p == WalkBack(pv, g, <<g>>)
       IN IF p[Len(p)] # s THEN <<>> ELSE p

\* Reconstruct that takes a one-node path for "no path"
ReconstructEmptyOnSingle(pv, s, g) ==
  IF g \notin DOMAIN pv /\ g # s THEN <<>>
  ELSE LET p == WalkBack(pv, g, <<g>>)
       IN IF p[Len(p)] # s \/ Len(p) < 2 THEN <<>> ELSE Reverse(p)

Reconstruct(pv, s, g) ==
  IF g \notin DOMAIN pv /\ g # s THEN <<>>
  ELSE LET p == WalkBack(pv, g, <<g>>)
       IN IF p[Len(p)] # s THEN <<>> ELSE Reverse(p)

\* the whole function: the loop run to its end, then the reconstruction
RECURSIVE RunLoop(_, _, _)
RunLoop(g, t, st) ==
  IF st.heap = {} THEN st
  ELSE LET e    == HeapMin(st.heap)
           rest == st.heap \ {e}
       IN IF e[2] \in st.visited
          THEN RunLoop(g, t, [st EXCEPT !.heap = rest])
          ELSE IF e[2] = t
          THEN [st EXCEPT !.heap = rest, !.visited = @ \cup {e[2]}]
          ELSE LET r == Relax(Adj(g, e[2]), 1, e[2], e[1],
                              [dist |-> st.dist, prev |-> st.prev, heap |-> rest])
               IN RunLoop(g, t, [dist |-> r.dist, prev |-> r.prev, heap |-> r.heap,
                                 visited |-> st.visited \cup {e[2]}])

_shortest_path(g, s, t) ==
  Reconstruct(RunLoop(g, t, [dist |-> [k \in {s} |-> 0],
                             prev |-> [k \in {s} |-> None],
                             heap |-> {<<0, s>>},
                             visited |-> {}]).prev, s, t)

\* the variables the builders own, when no builder runs
NoBuild ==
  /\ nodes = EmptyMap
  /\ ways = <<>>
  /\ highway_ways = <<>>
  /\ edge_types = EmptyMap
  /\ hybrid_graph = EmptyMap
  /\ hybrid_edge_types = EmptyMap
  /\ hybrid_path = <<>>

\* no response built yet
NoResponse == [status |-> "none"]

\* the variables of a navigation request, when none runs
NoNav ==
  /\ origin = None /\ dest = None
  /\ origin_node = None /\ dest_node = None
  /\ highway_nodes = EmptyMap /\ all_nodes = EmptyMap
  /\ hybrid_origin_node = None /\ hybrid_dest_node = None
  /\ use_highways = FALSE
  /\ response = NoResponse
  /\ events = <<>>
  /\ attempts = <<>>
  /\ args = EmptyMap
  /\ effective_radius = 0

\* no response of the map service at hand
NoData == data = <<>>

\* last_error = None
NoError == [kind |-> "none"]

\* no call of _fetch_overpass_data made
NoFetch == [status |-> "none"]

\* the variables of _fetch_overpass_data, when no call runs
NoOverpass ==
  /\ url_index = 0
  /\ contacted = <<>>
  /\ last_error = NoError
  /\ fetched = NoFetch

\* no call of get_or_refresh_facilities made
NoCall == [status |-> "none"]

\* the variables of the facilities service, when it is not in use
NoFacilities ==
  /\ cache = EmptyMap
  /\ clock = 0
  /\ last_call = NoCall
  /\ stored = EmptyMap

InitSearch ==
  /\ dist = [k \in {start} |-> 0]
  /\ prev = [k \in {start} |-> None]
  /\ heap = {<<0, start>>}
  /\ visited = {}
  /\ pc = "loop"
  /\ path = <<>>
  /\ popped = <<>>

\* one iteration of the while loop whose popped node is already settled
PopStale ==
  /\ pc = "loop" /\ heap # {}
  /\ LET e == HeapMin(heap)
     IN /\ e[2] \in visited
        /\ heap' = heap \ {e}
  /\ UNCHANGED <<graph, start, goal, dist, prev, visited, pc, path, popped>>
  /\ UNCHANGED buildVars
  /\ UNCHANGED navVars

\* one iteration that settles the goal and leaves the loop
PopGoal ==
  /\ pc = "loop" /\ heap # {}
  /\ LET e == HeapMin(heap)
     IN /\ e[2] \notin visited
        /\ e[2] = goal
        /\ heap' = heap \ {e}
        /\ visited' = visited \cup {e[2]}
        /\ popped' = Append(popped, e[2])
        /\ pc' = "reconstruct"
  /\ UNCHANGED <<graph, start, goal, dist, prev, path>>
  /\ UNCHANGED buildVars
  /\ UNCHANGED navVars

\* PopRelax that does not add the node to visited
PopRelaxNoVisited ==
  /\ pc = "loop" /\ heap # {}
  /\ LET e  == HeapMin(heap)
         st == Relax(Adj(graph, e[2]), 1, e[2], e[1],
                     [dist |-> dist, prev |-> prev, heap |-> heap \ {e}])
     IN /\ e[2] \notin visited
        /\ e[2] # goal
        /\ popped' = Append(popped, e[2])
        /\ dist' = st.dist
        /\ prev' = st.prev
        /\ heap' = st.heap
  /\ UNCHANGED <<graph, start, goal, pc, path, visited>>
  /\ UNCHANGED buildVars
  /\ UNCHANGED navVars

\* PopRelax that leaves the loop as soon as the goal has a tentative distance
PopRelaxStopsAtDiscovery ==
  /\ pc = "loop" /\ heap # {}
  /\ LET e  == HeapMin(heap)
         st == Relax(Adj(graph, e[2]), 1, e[2], e[1],
                     [dist |-> dist, prev |-> prev, heap |-> heap \ {e}])
     IN /\ e[2] \notin visited
        /\ e[2] # goal
        /\ visited' = visited \cup {e[2]}
        /\ popped' = Append(popped, e[2])
        /\ dist' = st.dist
        /\ prev' = st.prev
        /\ heap' = st.heap
        /\ pc' = IF goal \in DOMAIN st.dist THEN "reconstruct" ELSE "loop"
  /\ UNCHANGED <<graph, start, goal, path>>
  /\ UNCHANGED buildVars
  /\ UNCHANGED navVars

\* one iteration that settles a node and relaxes its adjacency entries
PopRelax ==
  /\ pc = "loop" /\ heap # {}
  /\ LET e  == HeapMin(heap)
         st == Relax(Adj(graph, e[2]), 1, e[2], e[1],
                     [dist |-> dist, prev |-> prev, heap |-> heap \ {e}])
     IN /\ e[2] \notin visited
        /\ e[2] # goal
        /\ visited' = visited \cup {e[2]}
        /\ popped' = Append(popped, e[2])
        /\ dist' = st.dist
        /\ prev' = st.prev
        /\ heap' = st.heap
  /\ UNCHANGED <<graph, start, goal, pc, path>>
  /\ UNCHANGED buildVars
  /\ UNCHANGED navVars

\* the while condition fails: the frontier is empty
LoopExit ==
  /\ pc = "loop" /\ heap = {}
  /\ pc' = "reconstruct"
  /\ UNCHANGED <<graph, start, goal, dist, prev, heap, visited, path, popped>>
  /\ UNCHANGED buildVars
  /\ UNCHANGED navVars

\* lines 691-705
Return ==
  /\ pc = "reconstruct"
  /\ path' = Reconstruct(prev, start, goal)
  /\ pc' = "done"
  /\ UNCHANGED <<graph, start, goal, dist, prev, heap, visited, popped>>
  /\ UNCHANGED buildVars
  /\ UNCHANGED navVars

InitSP ==
  /\ graph \in {GraphOfEntries(es) :
                  es \in SeqsUpTo(NodeIds \X NodeIds \X Weights, MaxEdges)}
  /\ start \in NodeIds
  /\ goal \in NodeIds
  /\ InitSearch
  /\ NoBuild
  /\ NoNav
  /\ NoData
  /\ NoOverpass
  /\ NoFacilities

NextSP == PopStale \/ PopGoal \/ PopRelax \/ LoopExit \/ Return

SpecSP == InitSP /\ [][NextSP]_vars

\* the function runs on: a step that can be taken is taken
SpecSPLive == InitSP /\ [][NextSP]_vars /\ WF_vars(NextSP)

-----------------------------------------------------------------------------
(* Geometry and the graph builders (app.py 59-67, 553-600, 609-643).       *)

\* _haversine_m for two points of one meridian
_haversine_m(lat1, lat2) == IF lat1 >= lat2 THEN lat1 - lat2 ELSE lat2 - lat1

\* the weight multipliers navigation passes to _build_hybrid_graph
pedestrian_weight == 1
highway_weight == 3

PedCategories ==
  {"path", "informal_path", "foot_path", "pedestrian_street", "sidewalk", "steps"}

\* type_rank.get(category, -1)
type_rank(c) ==
  CASE c = "steps" -> 5
    [] c = "sidewalk" -> 4
    [] c = "pedestrian_street" -> 3
    [] c = "foot_path" -> 2
    [] c = "informal_path" -> 1
    [] c = "path" -> 0
    [] OTHER -> -1

\* d[k] = val on a dict
Put(m, k, val) == [x \in DOMAIN m \cup {k} |-> IF x = k THEN val ELSE m[x]]

\* AddEdge that inserts the forward entry only
AddEdgeOneWay(g, u, v, w) == AddEntry(g, u, <<v, w>>)

\* graph[u].append((v, w)); graph[v].append((u, w))
AddEdge(g, u, v, w) == AddEntry(AddEntry(g, u, <<v, w>>), v, <<u, w>>)

\* RankedType that lets the later way win
RankedTypeLastWins(et, ekey, category) == Put(et, ekey, category)

\* lines 636-642: keep the category of higher rank
RankedType(et, ekey, category) ==
  IF ekey \in DOMAIN et
  THEN IF type_rank(category) > type_rank(et[ekey])
       THEN Put(et, ekey, category)
       ELSE et
  ELSE Put(et, ekey, category)

\* _build_graph: the loop over the consecutive pairs of one way
RECURSIVE BuildGraphWay(_, _, _, _)
BuildGraphWay(nd, way, i, acc) ==
  IF i > Len(way.nodes) THEN acc
  ELSE LET u == way.nodes[i - 1]
           v == way.nodes[i]
           w == _haversine_m(nd[u], nd[v])
       IN BuildGraphWay(nd, way, i + 1,
            [graph      |-> AddEdge(acc.graph, u, v, w),
             edge_types |-> RankedType(acc.edge_types, {u, v}, way.category)])

\* _build_graph: the loop over the ways
RECURSIVE BuildGraphWays(_, _, _, _)
BuildGraphWays(nd, ws, k, acc) ==
  IF k > Len(ws) THEN acc
  ELSE BuildGraphWays(nd, ws, k + 1, BuildGraphWay(nd, ws[k], 2, acc))

_build_graph(nd, ws) ==
  BuildGraphWays(nd, ws, 1, [graph |-> EmptyMap, edge_types |-> EmptyMap])

\* HybridPedWay that scales pedestrian edges by the road multiplier
RECURSIVE HybridPedWayPenalised(_, _, _, _, _)
HybridPedWayPenalised(nd, way, i, pw, acc) ==
  IF i > Len(way.nodes) THEN acc
  ELSE LET u == way.nodes[i - 1]
           v == way.nodes[i]
       IN IF u \notin DOMAIN nd \/ v \notin DOMAIN nd
          THEN HybridPedWayPenalised(nd, way, i + 1, pw, acc)
          ELSE HybridPedWayPenalised(nd, way, i + 1, pw,
                 [graph      |-> AddEdge(acc.graph, u, v,
                                         _haversine_m(nd[u], nd[v]) * highway_weight),
                  edge_types |-> Put(acc.edge_types, {u, v}, way.category)])

\* _build_hybrid_graph: the consecutive pairs of one pedestrian way
RECURSIVE HybridPedWay(_, _, _, _, _)
HybridPedWay(nd, way, i, pw, acc) ==
  IF i > Len(way.nodes) THEN acc
  ELSE LET u == way.nodes[i - 1]
           v == way.nodes[i]
       IN IF u \notin DOMAIN nd \/ v \notin DOMAIN nd
          THEN HybridPedWay(nd, way, i + 1, pw, acc)
          ELSE HybridPedWay(nd, way, i + 1, pw,
                 [graph      |-> AddEdge(acc.graph, u, v, _haversine_m(nd[u], nd[v]) * pw),
                  edge_types |-> Put(acc.edge_types, {u, v}, way.category)])

\* HybridRoadWay that writes the road category whatever the map holds
RECURSIVE HybridRoadWayOverrides(_, _, _, _, _)
HybridRoadWayOverrides(nd, way, i, hw, acc) ==
  IF i > Len(way.nodes) THEN acc
  ELSE LET u == way.nodes[i - 1]
           v == way.nodes[i]
       IN IF u \notin DOMAIN nd \/ v \notin DOMAIN nd
          THEN HybridRoadWayOverrides(nd, way, i + 1, hw, acc)
          ELSE HybridRoadWayOverrides(nd, way, i + 1, hw,
                 [graph      |-> AddEdge(acc.graph, u, v, _haversine_m(nd[u], nd[v]) * hw),
                  edge_types |-> Put(acc.edge_types, {u, v}, "highway")])

\* HybridRoadWay that adds no road edge where the pair has a category already
RECURSIVE HybridRoadWaySkipsCovered(_, _, _, _, _)
HybridRoadWaySkipsCovered(nd, way, i, hw, acc) ==
  IF i > Len(way.nodes) THEN acc
  ELSE LET u == way.nodes[i - 1]
           v == way.nodes[i]
       IN IF u \notin DOMAIN nd \/ v \notin DOMAIN nd
             \/ ({u, v} \in DOMAIN acc.edge_types /\ acc.edge_types[{u, v}] # "highway")
          THEN HybridRoadWaySkipsCovered(nd, way, i + 1, hw, acc)
          ELSE HybridRoadWaySkipsCovered(nd, way, i + 1, hw,
                 [graph      |-> AddEdge(acc.graph, u, v, _haversine_m(nd[u], nd[v]) * hw),
                  edge_types |-> Put(acc.edge_types, {u, v}, "highway")])

\* _build_hybrid_graph: the consecutive pairs of one road way
RECURSIVE HybridRoadWay(_, _, _, _, _)
HybridRoadWay(nd, way, i, hw, acc) ==
  IF i > Len(way.nodes) THEN acc
  ELSE LET u == way.nodes[i - 1]
           v == way.nodes[i]
       IN IF u \notin DOMAIN nd \/ v \notin DOMAIN nd
          THEN HybridRoadWay(nd, way, i + 1, hw, acc)
          ELSE HybridRoadWay(nd, way, i + 1, hw,
                 [graph      |-> AddEdge(acc.graph, u, v, _haversine_m(nd[u], nd[v]) * hw),
                  edge_types |-> IF {u, v} \notin DOMAIN acc.edge_types
                                 THEN Put(acc.edge_types, {u, v}, "highway")
                                 ELSE acc.edge_types])

RECURSIVE HybridPedWays(_, _, _, _, _)
HybridPedWays(nd, ws, k, pw, acc) ==
  IF k > Len(ws) THEN acc
  ELSE HybridPedWays(nd, ws, k + 1, pw, HybridPedWay(nd, ws[k], 2, pw, acc))

RECURSIVE HybridRoadWays(_, _, _, _, _)
HybridRoadWays(nd, ws, k, hw, acc) ==
  IF k > Len(ws) THEN acc
  ELSE HybridRoadWays(nd, ws, k + 1, hw, HybridRoadWay(nd, ws[k], 2, hw, acc))

_build_hybrid_graph(nd, pws, hws, pw, hw) ==
  HybridRoadWays(nd, hws, 1, hw,
    HybridPedWays(nd, pws, 1, pw, [graph |-> EmptyMap, edge_types |-> EmptyMap]))

-----------------------------------------------------------------------------
(* The builders as operations, and their inputs.                           *)

\* node lists of a way: two to MaxWayLen nodes, no node twice in a row
WayNodeLists ==
  {s \in SeqsUpTo(NodeIds, MaxWayLen) :
     Len(s) >= 2 /\ \A i \in 1..(Len(s) - 1) : s[i] # s[i + 1]}

WaysOf(cats) == [nodes : WayNodeLists, category : cats]

\* the ways of a fetch result list, in order, whose category passes the test
RECURSIVE SelectWays(_, _)
SelectWays(ws, cats) ==
  IF ws = <<>> THEN <<>>
  ELSE IF ws[1].category \in cats
       THEN <<ws[1]>> \o SelectWays(Tail(ws), cats)
       ELSE SelectWays(Tail(ws), cats)

\* a node table with the three nodes at three different places
SpreadTable == [n \in NodeIds |-> IF n = 1 THEN 0 ELSE IF n = 2 THEN 400 ELSE 100]

\* up to MaxWays ways of the pedestrian and road fetches together
GeoWayLists == SeqsUpTo(WaysOf({"foot_path", "highway"}), MaxWays)
CatWayLists == SeqsUpTo(WaysOf(PedCategories \cup {"highway"}), MaxWays)

\* every geometry, with one pedestrian category and the road category
InitGeo ==
  \E all \in GeoWayLists :
     /\ nodes \in [NodeIds -> Lats]
     /\ ways = SelectWays(all, PedCategories)
     /\ highway_ways = SelectWays(all, {"highway"})

\* every category, on one geometry
InitCat ==
  \E all \in CatWayLists :
     /\ nodes = SpreadTable
     /\ ways = SelectWays(all, PedCategories)
     /\ highway_ways = SelectWays(all, {"highway"})

InitBuildCommon ==
  /\ graph = EmptyMap
  /\ edge_types = EmptyMap
  /\ hybrid_graph = EmptyMap
  /\ hybrid_edge_types = EmptyMap
  /\ hybrid_path = <<>>
  /\ path = <<>>
  /\ dist = EmptyMap /\ prev = EmptyMap /\ heap = {} /\ visited = {}
  /\ popped = <<>>
  /\ start = None
  /\ goal = None
  /\ pc = "input"
  /\ NoNav
  /\ NoData
  /\ NoOverpass
  /\ NoFacilities

BuildGraph ==
  /\ pc = "input"
  /\ LET r == _build_graph(nodes, ways)
     IN /\ graph' = r.graph
        /\ edge_types' = r.edge_types
  /\ pc' = "built"
  /\ UNCHANGED <<start, goal, path, nodes, ways, highway_ways, hybrid_graph,
                 hybrid_edge_types, hybrid_path>>
  /\ UNCHANGED spVars
  /\ UNCHANGED navVars

BuildHybrid ==
  /\ pc = "built"
  /\ LET r == _build_hybrid_graph(nodes, ways, highway_ways,
                                  pedestrian_weight, highway_weight)
     IN /\ hybrid_graph' = r.graph
        /\ hybrid_edge_types' = r.edge_types
  /\ pc' = "hybrid"
  /\ UNCHANGED <<graph, start, goal, path, nodes, ways, highway_ways, edge_types,
                 hybrid_path>>
  /\ UNCHANGED spVars
  /\ UNCHANGED navVars

\* _shortest_path on both graphs for the same start and goal
SearchBoth ==
  /\ pc = "hybrid"
  /\ \E s, t \in NodeIds :
       /\ start' = s
       /\ goal' = t
       /\ path' = _shortest_path(graph, s, t)
       /\ hybrid_path' = _shortest_path(hybrid_graph, s, t)
  /\ pc' = "searched"
  /\ UNCHANGED <<graph, nodes, ways, highway_ways, edge_types,
                 hybrid_graph, hybrid_edge_types>>
  /\ UNCHANGED spVars
  /\ UNCHANGED navVars

InitBuild == (InitGeo \/ InitCat) /\ InitBuildCommon

NextBuild == BuildGraph \/ BuildHybrid

SpecBuild == InitBuild /\ [][NextBuild]_vars

InitHybrid == InitGeo /\ InitBuildCommon

NextHybrid == BuildGraph \/ BuildHybrid \/ SearchBoth

SpecHybrid == InitHybrid /\ [][NextHybrid]_vars

-----------------------------------------------------------------------------
(* _fetch_pedestrian_ways (app.py 414-508) applied to the elements of a    *)
(* response: node elements [type, id, lat] and way elements [type, nodes,  *)
(* tags], tags a dict from tag names to values.                            *)

\* the keys of a fetched node table in dict order: Overpass lists the nodes
\* of a result in ascending id
RECURSIVE KeysInOrder(_)
KeysInOrder(S) ==
  IF S = {} THEN <<>>
  ELSE LET m == CHOOSE x \in S : \A y \in S : x <= y
       IN <<m>> \o KeysInOrder(S \ {m})

\* tags.get(key, '')
tags_get(tags, key) == IF key \in DOMAIN tags THEN tags[key] ELSE ""

\* category = None is written ""
Included(category) == [include_way |-> TRUE, category |-> category]

Excluded == [include_way |-> FALSE, category |-> ""]

\* WayCategory where a crossing is a footway like any other
WayCategoryCrossingsKept(tags) ==
  LET hw              == tags_get(tags, "highway")
      footway_subtype == tags_get(tags, "footway")
      informal        == tags_get(tags, "informal")
      trail_vis       == tags_get(tags, "trail_visibility")
  IN IF hw = "steps" THEN Included("steps")
     ELSE IF hw = "pedestrian" THEN Included("pedestrian_street")
     ELSE IF hw = "footway"
          THEN IF footway_subtype = "sidewalk" THEN Included("sidewalk")
               ELSE Included("foot_path")
     ELSE IF hw = "path"
          THEN IF informal = "yes" \/ trail_vis # "" THEN Included("informal_path")
               ELSE Included("path")
     ELSE Excluded

\* lines 448-453 and 460-492: include_way and category of a way's tags
WayCategory(tags) ==
  LET hw              == tags_get(tags, "highway")
      footway_subtype == tags_get(tags, "footway")
      crossing        == tags_get(tags, "crossing")
      informal        == tags_get(tags, "informal")
      trail_vis       == tags_get(tags, "trail_visibility")
  IN IF hw = "steps" THEN Included("steps")
     ELSE IF hw = "pedestrian" THEN Included("pedestrian_street")
     ELSE IF hw = "footway"
          THEN IF footway_subtype = "sidewalk" THEN Included("sidewalk")
               ELSE IF footway_subtype = "crossing" THEN Excluded
               ELSE Included("foot_path")
     ELSE IF hw = "path"
          THEN IF informal = "yes" \/ trail_vis # "" THEN Included("informal_path")
               ELSE Included("path")
     ELSE Excluded

\* lines 438-442: the node table of the node elements (a later element with
\* the same id replaces an earlier one)
NodeTable(elements) ==
  LET at(id) == {i \in 1..Len(elements) :
                   elements[i].type = "node" /\ elements[i].id = id}
      ids    == {elements[i].id : i \in {j \in 1..Len(elements) : elements[j].type = "node"}}
  IN [id \in ids |-> elements[CHOOSE i \in at(id) : \A j \in at(id) : j <= i].lat]

\* line 456: [nid for nid in node_ids if nid in nodes]
Filtered(node_ids, nd) == SelectSeq(node_ids, LAMBDA nid : nid \in DOMAIN nd)

\* lines 444-500: the way elements from position i on
RECURSIVE FetchedWays(_, _, _)
FetchedWays(elements, i, nd) ==
  IF i > Len(elements) THEN <<>>
  ELSE LET el == elements[i]
       IN IF el.type # "way" THEN FetchedWays(elements, i + 1, nd)
          ELSE LET filtered == Filtered(el.nodes, nd)
                   c        == WayCategory(el.tags)
               IN IF Len(filtered) < 2 THEN FetchedWays(elements, i + 1, nd)
                  ELSE IF c.include_way /\ c.category # ""
                  THEN <<[nodes |-> filtered, category |-> c.category]>>
                         \o FetchedWays(elements, i + 1, nd)
                  ELSE FetchedWays(elements, i + 1, nd)

_fetch_pedestrian_ways(elements) ==
  [nodes |-> NodeTable(elements),
   ways  |-> FetchedWays(elements, 1, NodeTable(elements))]

\* the tag sets of the model: each key absent or with one of these values
TagValues(key) ==
  IF key = "highway" THEN {"steps", "pedestrian", "footway", "path", "residential"}
  ELSE IF key = "footway" THEN {"sidewalk", "crossing", "access_aisle"}
  ELSE IF key = "crossing" THEN {"marked", "traffic_signals", "unmarked"}
  ELSE IF key = "informal" THEN {"yes", "no"}
  ELSE {"good"}

TagKeys == {"highway", "footway", "crossing", "informal", "trail_visibility"}

AllTagValues == UNION {TagValues(key) : key \in TagKeys}

TagSets ==
  UNION {{t \in [K -> AllTagValues] : \A key \in K : t[key] \in TagValues(key)} :
         K \in SUBSET TagKeys}

\* the node elements of a response, in ascending id
NodeElements(ids) ==
  LET order == KeysInOrder(ids)
  IN [i \in 1..Len(order) |-> [type |-> "node", id |-> order[i], lat |-> SpreadTable[order[i]]]]

WayElement(node_ids, tags) == [type |-> "way", nodes |-> node_ids, tags |-> tags]

\* a plain footway between the last two nodes
PlainFootway == WayElement(<<NumNodes - 1, NumNodes>>, [key \in {"highway"} |-> "footway"])

\* the responses of the model: any part of the nodes, one way with any tag
\* set over two or three nodes, and the plain footway or not
Responses ==
  {NodeElements(ids) \o <<WayElement(node_ids, tags)>> \o rest :
     ids \in SUBSET NodeIds,
     node_ids \in {<<1, 2>>, <<1, 2, 3>>, <<3, 1>>},
     tags \in TagSets,
     rest \in {<<>>, <<PlainFootway>>}}

InitFetch ==
  /\ data \in Responses
  /\ NoOverpass
  /\ NoFacilities
  /\ pc = "fetch"
  /\ NoBuild
  /\ NoNav
  /\ graph = EmptyMap
  /\ path = <<>>
  /\ dist = EmptyMap /\ prev = EmptyMap /\ heap = {} /\ visited = {}
  /\ popped = <<>>
  /\ start = None
  /\ goal = None

\* lines 436-508: the response is turned into the node table and the ways
FetchWays ==
  /\ pc = "fetch"
  /\ LET r == _fetch_pedestrian_ways(data)
     IN /\ nodes' = r.nodes
        /\ ways' = r.ways
  /\ pc' = "input"
  /\ UNCHANGED <<graph, start, goal, path, highway_ways, edge_types, hybrid_graph,
                 hybrid_edge_types, hybrid_path>>
  /\ UNCHANGED spVars
  /\ UNCHANGED navVars

NextFetch == FetchWays \/ BuildGraph

SpecFetch == InitFetch /\ [][NextFetch]_vars

-----------------------------------------------------------------------------
(* /api/navigation (app.py 81-253) and its helpers.                        *)

max_search_distances == <<200, 500, 1000>>

\* the key order of {**a, **b}: the keys of a, then the new keys of b
MergedOrder(a, b) == KeysInOrder(DOMAIN a) \o KeysInOrder(DOMAIN b \ DOMAIN a)

\* {**a, **b}
Merged(a, b) == [k \in DOMAIN a \cup DOMAIN b |-> IF k \in DOMAIN b THEN b[k] ELSE a[k]]

\* NearestScan that takes every node of the table, edges or not
RECURSIVE NearestScanAnyNode(_, _, _, _, _, _, _, _)
NearestScanAnyNode(point, order, i, nd, g, max_distance_m, best_id, best_d) ==
  IF i > Len(order) THEN best_id
  ELSE LET nid == order[i]
           d   == _haversine_m(point, nd[nid])
       IN IF (best_id = None \/ d < best_d) /\ d <= max_distance_m
          THEN NearestScanAnyNode(point, order, i + 1, nd, g, max_distance_m, nid, d)
          ELSE NearestScanAnyNode(point, order, i + 1, nd, g, max_distance_m, best_id, best_d)

\* _nearest_node: the scan of nodes.items() from position i on;
\* best_id = None stands for best_d = inf
RECURSIVE NearestScan(_, _, _, _, _, _, _, _)
NearestScan(point, order, i, nd, g, max_distance_m, best_id, best_d) ==
  IF i > Len(order) THEN best_id
  ELSE LET nid == order[i]
           d   == _haversine_m(point, nd[nid])
       IN IF nid \notin DOMAIN g
          THEN NearestScan(point, order, i + 1, nd, g, max_distance_m, best_id, best_d)
          ELSE IF (best_id = None \/ d < best_d) /\ d <= max_distance_m
          THEN NearestScan(point, order, i + 1, nd, g, max_distance_m, nid, d)
          ELSE NearestScan(point, order, i + 1, nd, g, max_distance_m, best_id, best_d)

_nearest_node(point, order, nd, g, max_distance_m) ==
  NearestScan(point, order, 1, nd, g, max_distance_m, None, 0)

\* ResolveLoop that leaves the loop as soon as either endpoint is resolved
RECURSIVE ResolveLoopEitherBreaks(_, _, _, _, _, _, _, _)
ResolveLoopEitherBreaks(i, o, d, order, nd, g, st, att) ==
  IF i > Len(max_search_distances) THEN [origin_node |-> st[1], dest_node |-> st[2],
                                         attempts |-> att]
  ELSE LET r   == max_search_distances[i]
           on  == IF st[1] = None THEN _nearest_node(o, order, nd, g, r) ELSE st[1]
           a1  == IF st[1] = None THEN Append(att, <<"origin", r, on>>) ELSE att
           dn  == IF st[2] = None THEN _nearest_node(d, order, nd, g, r) ELSE st[2]
           a2  == IF st[2] = None THEN Append(a1, <<"dest", r, dn>>) ELSE a1
       IN IF on # None \/ dn # None
          THEN [origin_node |-> on, dest_node |-> dn, attempts |-> a2]
          ELSE ResolveLoopEitherBreaks(i + 1, o, d, order, nd, g, <<on, dn>>, a2)

\* ResolveLoop that looks both endpoints up again at every radius
RECURSIVE ResolveLoopAlwaysRetries(_, _, _, _, _, _, _, _)
ResolveLoopAlwaysRetries(i, o, d, order, nd, g, st, att) ==
  IF i > Len(max_search_distances) THEN [origin_node |-> st[1], dest_node |-> st[2],
                                         attempts |-> att]
  ELSE LET r   == max_search_distances[i]
           on  == _nearest_node(o, order, nd, g, r)
           a1  == Append(att, <<"origin", r, on>>)
           dn  == _nearest_node(d, order, nd, g, r)
           a2  == Append(a1, <<"dest", r, dn>>)
       IN IF on # None /\ dn # None
          THEN [origin_node |-> on, dest_node |-> dn, attempts |-> a2]
          ELSE ResolveLoopAlwaysRetries(i + 1, o, d, order, nd, g, <<on, dn>>, a2)

\* lines 145-151: the loop over max_search_distances from index i on
RECURSIVE ResolveLoop(_, _, _, _, _, _, _, _)
ResolveLoop(i, o, d, order, nd, g, st, att) ==
  IF i > Len(max_search_distances) THEN [origin_node |-> st[1], dest_node |-> st[2],
                                         attempts |-> att]
  ELSE LET r   == max_search_distances[i]
           on  == IF st[1] = None THEN _nearest_node(o, order, nd, g, r) ELSE st[1]
           a1  == IF st[1] = None THEN Append(att, <<"origin", r, on>>) ELSE att
           dn  == IF st[2] = None THEN _nearest_node(d, order, nd, g, r) ELSE st[2]
           a2  == IF st[2] = None THEN Append(a1, <<"dest", r, dn>>) ELSE a1
       IN IF on # None /\ dn # None
          THEN [origin_node |-> on, dest_node |-> dn, attempts |-> a2]
          ELSE ResolveLoop(i + 1, o, d, order, nd, g, <<on, dn>>, a2)

\* _segments_with_types
_segments_with_types(node_path, nd, et) ==
  [i \in 1..(Len(node_path) - 1) |->
     LET u == node_path[i]
         v == node_path[i + 1]
         category == IF {u, v} \in DOMAIN et THEN et[{u, v}] ELSE "foot_path"
     IN [from |-> nd[u], to |-> nd[v], category |-> category,
         highway |-> category, is_highway |-> (category = "highway")]]

\* _network_geometries
RECURSIVE _network_geometries(_, _)
_network_geometries(nd, ws) ==
  IF ws = <<>> THEN <<>>
  ELSE LET way    == ws[1]
           coords == SelectSeq([i \in 1..Len(way.nodes) |->
                                  IF way.nodes[i] \in DOMAIN nd
                                  THEN <<nd[way.nodes[i]]>> ELSE <<>>],
                               LAMBDA c : c # <<>>)
       IN (IF Len(coords) >= 2
           THEN <<[category |-> way.category,
                   coords |-> [i \in 1..Len(coords) |-> coords[i][1]]]>>
           ELSE <<>>) \o _network_geometries(nd, Tail(ws))

\* _polyline_length
RECURSIVE _polyline_length(_)
_polyline_length(coords) ==
  IF Len(coords) <= 1 THEN 0
  ELSE _haversine_m(coords[1], coords[2]) + _polyline_length(Tail(coords))

\* SegmentSum that charges a road segment its search weight
RECURSIVE SegmentSumPenalised(_, _)
SegmentSumPenalised(segs, road) ==
  IF segs = <<>> THEN 0
  ELSE (IF (segs[1].category = "highway" \/ segs[1].highway = "highway") = road
        THEN _haversine_m(segs[1].from, segs[1].to)
               * (IF road THEN highway_weight ELSE pedestrian_weight)
        ELSE 0)
       + SegmentSumPenalised(Tail(segs), road)

\* lines 227-235: the sum of the segment lengths whose road test equals road
RECURSIVE SegmentSum(_, _)
SegmentSum(segs, road) ==
  IF segs = <<>> THEN 0
  ELSE (IF (segs[1].category = "highway" \/ segs[1].highway = "highway") = road
        THEN _haversine_m(segs[1].from, segs[1].to) ELSE 0)
       + SegmentSum(Tail(segs), road)

\* the error responses, by cause
ErrorResponse(code, cause) == [status |-> "error", code |-> code, cause |-> cause]

-----------------------------------------------------------------------------
(* The map the requests run on: six nodes on one meridian, three           *)
(* pedestrian ways and three road ways a fetch may or may not return.      *)

WorldLat == <<0, 100, 500, 600, 300, 350>>

PedWayPool ==
  << [nodes |-> <<1, 2>>, category |-> "foot_path"],
     [nodes |-> <<3, 4>>, category |-> "steps"],
     [nodes |-> <<2, 3>>, category |-> "sidewalk"] >>

RoadWayPool ==
  << [nodes |-> <<2, 5, 3>>, category |-> "highway"],
     [nodes |-> <<5, 6>>, category |-> "highway"],
     [nodes |-> <<1, 2>>, category |-> "highway"] >>

\* where a request may start and end
Points == {0, 250, 350, 600, 1000, 1500, 2700}

RECURSIVE Pick(_, _, _)
Pick(pool, S, i) ==
  IF i > Len(pool) THEN <<>>
  ELSE (IF i \in S THEN <<pool[i]>> ELSE <<>>) \o Pick(pool, S, i + 1)

SubLists(pool) == {Pick(pool, S, 1) : S \in SUBSET (1..Len(pool))}

NodesOfWays(ws) == UNION {{ws[k].nodes[i] : i \in 1..Len(ws[k].nodes)} : k \in 1..Len(ws)}

\* the node table a fetch returns with the ways ws: their nodes, and the
\* nodes of ways the classifier dropped
TableOf(ws, extra) == [n \in NodesOfWays(ws) \cup extra |-> WorldLat[n]]

-----------------------------------------------------------------------------
(* The query parameters (lines 91-118).  A parameter value is the sequence *)
(* of its characters; a point is sent as "lat,lng".                        *)

Digits == <<"0", "1", "2", "3", "4", "5", "6", "7", "8", "9">>

DigitSet == {Digits[i] : i \in 1..Len(Digits)}

\* str.split(','): cur holds the characters of the field being read
RECURSIVE Split(_, _)
Split(s, cur) ==
  IF s = <<>> THEN <<cur>>
  ELSE IF Head(s) = "," THEN <<cur>> \o Split(Tail(s), <<>>)
  ELSE Split(Tail(s), Append(cur, Head(s)))

\* float(s) raises ValueError unless s is a numeral; the numerals of the
\* model are the non-empty digit strings
FloatRaises(s) == s = <<>> \/ \E i \in 1..Len(s) : s[i] \notin DigitSet

RECURSIVE FloatValue(_, _)
FloatValue(s, acc) ==
  IF s = <<>> THEN acc
  ELSE FloatValue(Tail(s), 10 * acc + (CHOOSE d \in 0..9 : Digits[d + 1] = Head(s)))

float(s) == FloatValue(s, 0)

\* the decimal numeral of a natural number
RECURSIVE Numeral(_)
Numeral(n) ==
  IF n < 10 THEN <<Digits[n + 1]>> ELSE Append(Numeral(n \div 10), Digits[(n % 10) + 1])

\* request.args.get('radius_m', '2000')
DefaultRadius == <<"2", "0", "0", "0">>

\* the values a client sends for origin and dest: the points of the map on
\* the meridian of longitude 10, an empty value, one field, three fields, a
\* field that is no number
CoordParams ==
  {Numeral(p) \o <<",", "1", "0">> : p \in Points}
    \cup {<<>>, <<"2", "5", "0">>, <<"1", ",", "2", ",", "3">>, <<"x", ",", "1", "0">>}

\* the values a client sends for radius_m
RadiusParams == {<<"6", "0", "0">>, <<"a", "b", "c">>}

ParamValues(name) == IF name = "radius_m" THEN RadiusParams ELSE CoordParams

\* request.args: any of the three parameters may be missing
RequestArgs ==
  UNION {{f \in [D -> CoordParams \cup RadiusParams] :
            \A name \in D : f[name] \in ParamValues(name)} :
         D \in SUBSET {"origin", "dest", "radius_m"}}

\* an exception that leaves navigation(): no response is built
Fault(exception) == [status |-> "fault", exception |-> exception]

Max(a, b) == IF a >= b THEN a ELSE b

-----------------------------------------------------------------------------
(* The request, one action per stage.                                      *)

Respond(r) == response' = r /\ pc' = "done"

\* lines 91-118: the query parameters, the points and the radius
ParseRequest ==
  /\ pc = "parse"
  /\ LET radius_str == IF "radius_m" \in DOMAIN args THEN args["radius_m"]
                                                     ELSE DefaultRadius
         given(name) == name \in DOMAIN args /\ args[name] # <<>>
     IN IF FloatRaises(radius_str)
        THEN /\ Respond(Fault("ValueError"))
             /\ UNCHANGED <<origin, dest, effective_radius>>
        ELSE IF ~given("origin") \/ ~given("dest")
        THEN /\ Respond(ErrorResponse(400, "params_required"))
             /\ UNCHANGED <<origin, dest, effective_radius>>
        ELSE LET o == Split(args["origin"], <<>>)
                 d == Split(args["dest"], <<>>)
             IN IF \/ \E i \in 1..Len(o) : FloatRaises(o[i])
                   \/ \E i \in 1..Len(d) : FloatRaises(d[i])
                   \/ Len(o) # 2 \/ Len(d) # 2
                THEN /\ Respond(ErrorResponse(400, "invalid_format"))
                     /\ UNCHANGED <<origin, dest, effective_radius>>
                ELSE /\ origin' = float(o[1])
                     /\ dest' = float(d[1])
                     /\ effective_radius' =
                          Max(float(radius_str),
                              (_haversine_m(float(o[1]), float(d[1])) * 3) \div 2)
                     /\ pc' = "fetch_pedestrian"
                     /\ UNCHANGED response
  /\ events' = Append(events, "parse")
  /\ UNCHANGED <<graph, start, goal, path, nodes, ways, highway_ways, edge_types,
                 hybrid_graph, hybrid_edge_types, hybrid_path,
                 origin_node, dest_node, highway_nodes, all_nodes,
                 hybrid_origin_node, hybrid_dest_node, use_highways, attempts, args,
                 data>>
  /\ UNCHANGED spVars
  /\ UNCHANGED overpassVars
  /\ UNCHANGED facilityVars

\* line 120 raises: the exception reaches the except clause of lines 252-253
FetchPedestrianFails ==
  /\ pc = "fetch_pedestrian"
  /\ events' = events \o <<"fetch_pedestrian", "fetch_raised">>
  /\ Respond(ErrorResponse(500, "fetch_failed"))
  /\ UNCHANGED <<graph, start, goal, path, nodes, ways, highway_ways, edge_types,
                 hybrid_graph, hybrid_edge_types, hybrid_path, origin, dest,
                 origin_node, dest_node, highway_nodes, all_nodes,
                 hybrid_origin_node, hybrid_dest_node, use_highways, attempts>>
  /\ UNCHANGED spVars
  /\ UNCHANGED reqVars
  /\ UNCHANGED overpassVars
  /\ UNCHANGED facilityVars

\* FetchPedestrian without the 'if not ways' answer
FetchPedestrianNoEmptyTest ==
  /\ pc = "fetch_pedestrian"
  /\ \E ws \in SubLists(PedWayPool), extra \in {{}, {5}} :
       /\ nodes' = TableOf(ws, extra)
       /\ ways' = ws
       /\ pc' = "build_graph" /\ UNCHANGED response
  /\ events' = Append(events, "fetch_pedestrian")
  /\ UNCHANGED <<graph, start, goal, path, highway_ways, edge_types,
                 hybrid_graph, hybrid_edge_types, hybrid_path, origin, dest,
                 origin_node, dest_node, highway_nodes, all_nodes,
                 hybrid_origin_node, hybrid_dest_node, use_highways, attempts>>
  /\ UNCHANGED spVars
  /\ UNCHANGED reqVars
  /\ UNCHANGED overpassVars
  /\ UNCHANGED facilityVars

\* lines 120-129
FetchPedestrian ==
  /\ pc = "fetch_pedestrian"
  /\ \E ws \in SubLists(PedWayPool), extra \in {{}, {5}} :
       /\ nodes' = TableOf(ws, extra)
       /\ ways' = ws
       /\ IF ws = <<>>
          THEN Respond([status |-> "error", code |-> 404,
                        cause |-> "no_pedestrian_data",
                        radius_m |-> effective_radius])
          ELSE pc' = "build_graph" /\ UNCHANGED response
  /\ events' = Append(events, "fetch_pedestrian")
  /\ UNCHANGED <<graph, start, goal, path, highway_ways, edge_types,
                 hybrid_graph, hybrid_edge_types, hybrid_path, origin, dest,
                 origin_node, dest_node, highway_nodes, all_nodes,
                 hybrid_origin_node, hybrid_dest_node, use_highways, attempts>>
  /\ UNCHANGED spVars
  /\ UNCHANGED reqVars
  /\ UNCHANGED overpassVars
  /\ UNCHANGED facilityVars

\* lines 131-138
NavBuildGraph ==
  /\ pc = "build_graph"
  /\ LET r == _build_graph(nodes, ways)
     IN /\ graph' = r.graph
        /\ edge_types' = r.edge_types
        /\ IF r.graph = EmptyMap
           THEN Respond(ErrorResponse(404, "no_graph"))
           ELSE pc' = "resolve" /\ UNCHANGED response
  /\ events' = Append(events, "build_graph")
  /\ UNCHANGED <<start, goal, path, nodes, ways, highway_ways,
                 hybrid_graph, hybrid_edge_types, hybrid_path, origin, dest,
                 origin_node, dest_node, highway_nodes, all_nodes,
                 hybrid_origin_node, hybrid_dest_node, use_highways, attempts>>
  /\ UNCHANGED spVars
  /\ UNCHANGED reqVars
  /\ UNCHANGED overpassVars
  /\ UNCHANGED facilityVars

\* lines 140-175
ResolveEndpoints ==
  /\ pc = "resolve"
  /\ LET r == ResolveLoop(1, origin, dest, KeysInOrder(DOMAIN nodes), nodes, graph,
                          <<None, None>>, <<>>)
     IN /\ origin_node' = r.origin_node
        /\ dest_node' = r.dest_node
        /\ attempts' = r.attempts
        /\ IF r.origin_node = None
           THEN Respond(ErrorResponse(404, "origin_unresolved"))
           ELSE IF r.dest_node = None
           THEN Respond(ErrorResponse(404, "dest_unresolved"))
           ELSE pc' = "search" /\ UNCHANGED response
  /\ events' = Append(events, "resolve")
  /\ UNCHANGED <<graph, start, goal, path, nodes, ways, highway_ways, edge_types,
                 hybrid_graph, hybrid_edge_types, hybrid_path, origin, dest,
                 highway_nodes, all_nodes,
                 hybrid_origin_node, hybrid_dest_node, use_highways>>
  /\ UNCHANGED spVars
  /\ UNCHANGED reqVars
  /\ UNCHANGED overpassVars
  /\ UNCHANGED facilityVars

\* SearchPedestrian that goes on to the road fetch whatever the search found
SearchPedestrianAlwaysFallback ==
  /\ pc = "search"
  /\ LET p == _shortest_path(graph, origin_node, dest_node)
     IN /\ path' = p
        /\ events' = Append(events, IF p = <<>> THEN "search_empty" ELSE "search_found")
        /\ pc' = "fetch_highways"
  /\ use_highways' = FALSE
  /\ UNCHANGED <<graph, start, goal, nodes, ways, highway_ways, edge_types,
                 hybrid_graph, hybrid_edge_types, hybrid_path, origin, dest,
                 origin_node, dest_node, highway_nodes, all_nodes,
                 hybrid_origin_node, hybrid_dest_node, response, attempts>>
  /\ UNCHANGED spVars
  /\ UNCHANGED reqVars
  /\ UNCHANGED overpassVars
  /\ UNCHANGED facilityVars

\* lines 177-181
SearchPedestrian ==
  /\ pc = "search"
  /\ LET p == _shortest_path(graph, origin_node, dest_node)
     IN /\ path' = p
        /\ events' = Append(events, IF p = <<>> THEN "search_empty" ELSE "search_found")
        /\ pc' = IF p = <<>> THEN "fetch_highways" ELSE "assemble"
  /\ use_highways' = FALSE
  /\ UNCHANGED <<graph, start, goal, nodes, ways, highway_ways, edge_types,
                 hybrid_graph, hybrid_edge_types, hybrid_path, origin, dest,
                 origin_node, dest_node, highway_nodes, all_nodes,
                 hybrid_origin_node, hybrid_dest_node, response, attempts>>
  /\ UNCHANGED spVars
  /\ UNCHANGED reqVars
  /\ UNCHANGED overpassVars
  /\ UNCHANGED facilityVars

\* FetchHighwaysFails that swallows the exception: the request goes on as if
\* the fetch had returned no way
FetchHighwaysFailsAsNoPath ==
  /\ pc = "fetch_highways"
  /\ events' = events \o <<"fetch_highways", "fetch_raised">>
  /\ Respond(ErrorResponse(404, "no_path"))
  /\ UNCHANGED <<graph, start, goal, path, nodes, ways, highway_ways, edge_types,
                 hybrid_graph, hybrid_edge_types, hybrid_path, origin, dest,
                 origin_node, dest_node, highway_nodes, all_nodes,
                 hybrid_origin_node, hybrid_dest_node, use_highways, attempts>>
  /\ UNCHANGED spVars
  /\ UNCHANGED reqVars
  /\ UNCHANGED overpassVars
  /\ UNCHANGED facilityVars

\* line 183 raises: the exception reaches the except clause of lines 252-253
FetchHighwaysFails ==
  /\ pc = "fetch_highways"
  /\ events' = events \o <<"fetch_highways", "fetch_raised">>
  /\ Respond(ErrorResponse(500, "fetch_failed"))
  /\ UNCHANGED <<graph, start, goal, path, nodes, ways, highway_ways, edge_types,
                 hybrid_graph, hybrid_edge_types, hybrid_path, origin, dest,
                 origin_node, dest_node, highway_nodes, all_nodes,
                 hybrid_origin_node, hybrid_dest_node, use_highways, attempts>>
  /\ UNCHANGED spVars
  /\ UNCHANGED reqVars
  /\ UNCHANGED overpassVars
  /\ UNCHANGED facilityVars

\* lines 183-185, and 208-219 when no road way came back
FetchHighways ==
  /\ pc = "fetch_highways"
  /\ \E ws \in SubLists(RoadWayPool) :
       /\ highway_nodes' = TableOf(ws, {})
       /\ highway_ways' = ws
       /\ IF ws = <<>>
          THEN Respond(ErrorResponse(404, "no_path"))
          ELSE pc' = "build_hybrid" /\ UNCHANGED response
  /\ events' = Append(events, "fetch_highways")
  /\ UNCHANGED <<graph, start, goal, path, nodes, ways, edge_types,
                 hybrid_graph, hybrid_edge_types, hybrid_path, origin, dest,
                 origin_node, dest_node, all_nodes,
                 hybrid_origin_node, hybrid_dest_node, use_highways, attempts>>
  /\ UNCHANGED spVars
  /\ UNCHANGED reqVars
  /\ UNCHANGED overpassVars
  /\ UNCHANGED facilityVars

\* lines 187-194
NavBuildHybrid ==
  /\ pc = "build_hybrid"
  /\ all_nodes' = Merged(nodes, highway_nodes)
  /\ LET r == _build_hybrid_graph(Merged(nodes, highway_nodes), ways, highway_ways,
                                  pedestrian_weight, highway_weight)
     IN /\ hybrid_graph' = r.graph
        /\ hybrid_edge_types' = r.edge_types
  /\ events' = Append(events, "build_hybrid")
  /\ pc' = "resolve_hybrid"
  /\ UNCHANGED <<graph, start, goal, path, nodes, ways, highway_ways, edge_types,
                 hybrid_path, origin, dest, origin_node, dest_node, highway_nodes,
                 hybrid_origin_node, hybrid_dest_node, use_highways, response,
                 attempts>>
  /\ UNCHANGED spVars
  /\ UNCHANGED reqVars
  /\ UNCHANGED overpassVars
  /\ UNCHANGED facilityVars

\* lines 196-200, and 208-219 when an endpoint is not resolved
ResolveHybrid ==
  /\ pc = "resolve_hybrid"
  /\ LET order == MergedOrder(nodes, highway_nodes)
         on == _nearest_node(origin, order, all_nodes, hybrid_graph, 1000)
         dn == _nearest_node(dest, order, all_nodes, hybrid_graph, 1000)
     IN /\ hybrid_origin_node' = on
        /\ hybrid_dest_node' = dn
        /\ IF on # None /\ dn # None
           THEN pc' = "search_hybrid" /\ UNCHANGED response
           ELSE Respond(ErrorResponse(404, "no_path"))
  /\ events' = Append(events, "resolve_hybrid")
  /\ UNCHANGED <<graph, start, goal, path, nodes, ways, highway_ways, edge_types,
                 hybrid_graph, hybrid_edge_types, hybrid_path, origin, dest,
                 origin_node, dest_node, highway_nodes, all_nodes, use_highways,
                 attempts>>
  /\ UNCHANGED spVars
  /\ UNCHANGED reqVars
  /\ UNCHANGED overpassVars
  /\ UNCHANGED facilityVars

\* lines 201-219
SearchHybrid ==
  /\ pc = "search_hybrid"
  /\ LET p == _shortest_path(hybrid_graph, hybrid_origin_node, hybrid_dest_node)
     IN /\ path' = p
        /\ hybrid_path' = p
        /\ events' = Append(events, IF p = <<>> THEN "search_hybrid_empty"
                                                ELSE "search_hybrid_found")
        /\ IF p # <<>>
           THEN /\ use_highways' = TRUE
                /\ edge_types' = hybrid_edge_types
                /\ nodes' = all_nodes
                /\ pc' = "assemble"
                /\ UNCHANGED response
           ELSE /\ Respond(ErrorResponse(404, "no_path"))
                /\ UNCHANGED <<use_highways, edge_types, nodes>>
  /\ UNCHANGED <<graph, start, goal, ways, highway_ways,
                 hybrid_graph, hybrid_edge_types, origin, dest,
                 origin_node, dest_node, highway_nodes, all_nodes,
                 hybrid_origin_node, hybrid_dest_node, attempts>>
  /\ UNCHANGED spVars
  /\ UNCHANGED reqVars
  /\ UNCHANGED overpassVars
  /\ UNCHANGED facilityVars

\* lines 221-251
Assemble ==
  /\ pc = "assemble"
  /\ LET coords   == [i \in 1..Len(path) |-> nodes[path[i]]]
         segments == _segments_with_types(path, nodes, edge_types)
     IN Respond([status |-> "success",
                 route |-> coords,
                 route_colored |-> segments,
                 network |-> _network_geometries(nodes, ways),
                 meta |-> [nodes |-> Cardinality(DOMAIN nodes),
                           ways |-> Len(ways),
                           distance_m |-> _polyline_length(coords),
                           pedestrian_distance_m |-> SegmentSum(segments, FALSE),
                           highway_distance_m |-> SegmentSum(segments, TRUE),
                           uses_highways |-> use_highways]])
  /\ events' = Append(events, "assemble")
  /\ UNCHANGED <<graph, start, goal, path, nodes, ways, highway_ways, edge_types,
                 hybrid_graph, hybrid_edge_types, hybrid_path, origin, dest,
                 origin_node, dest_node, highway_nodes, all_nodes,
                 hybrid_origin_node, hybrid_dest_node, use_highways, attempts>>
  /\ UNCHANGED spVars
  /\ UNCHANGED reqVars
  /\ UNCHANGED overpassVars
  /\ UNCHANGED facilityVars

Init ==
  /\ args \in RequestArgs
  /\ NoData
  /\ NoOverpass
  /\ NoFacilities
  /\ origin = None /\ dest = None
  /\ effective_radius = 0
  /\ pc = "parse"
  /\ origin_node = None /\ dest_node = None
  /\ highway_nodes = EmptyMap /\ all_nodes = EmptyMap
  /\ hybrid_origin_node = None /\ hybrid_dest_node = None
  /\ use_highways = FALSE
  /\ response = NoResponse
  /\ events = <<>>
  /\ attempts = <<>>
  /\ NoBuild
  /\ graph = EmptyMap
  /\ path = <<>>
  /\ start = None /\ goal = None
  /\ dist = EmptyMap /\ prev = EmptyMap /\ heap = {} /\ visited = {}
  /\ popped = <<>>

Next ==
  \/ ParseRequest
  \/ FetchPedestrianFails \/ FetchPedestrian \/ NavBuildGraph \/ ResolveEndpoints
  \/ SearchPedestrian \/ FetchHighwaysFails \/ FetchHighways \/ NavBuildHybrid
  \/ ResolveHybrid \/ SearchHybrid \/ Assemble

Spec == Init /\ [][Next]_vars

-----------------------------------------------------------------------------
(* Reference notions the properties of _shortest_path are stated with.     *)

HasEntry(g, u, v) == \E i \in 1..Len(Adj(g, u)) : Adj(g, u)[i][1] = v

SetMin(S) == CHOOSE x \in S : \A y \in S : x <= y

\* the cheapest of the parallel entries u -> v
MinEntry(g, u, v) ==
  SetMin({Adj(g, u)[i][2] : i \in {j \in 1..Len(Adj(g, u)) : Adj(g, u)[j][1] = v}})

IsWalk(g, p) == \A i \in 1..(Len(p) - 1) : HasEntry(g, p[i], p[i + 1])

RECURSIVE PathWeight(_, _)
PathWeight(g, p) ==
  IF Len(p) <= 1 THEN 0 ELSE MinEntry(g, p[1], p[2]) + PathWeight(g, Tail(p))

\* every node sequence of up to NumNodes + 1 nodes: all simple paths and more
Walks == SeqsUpTo(NodeIds, NumNodes + 1) \ {<<>>}

WalksFromTo(g, s, t) ==
  {p \in Walks : p[1] = s /\ p[Len(p)] = t /\ IsWalk(g, p)}

\* the nodes reachable from the set S, as a fixpoint
RECURSIVE Closure(_, _)
Closure(g, S) ==
  LET more == S \cup UNION {{Adj(g, u)[i][1] : i \in 1..Len(Adj(g, u))} : u \in S}
  IN IF more = S THEN S ELSE Closure(g, more)

Reachable(g, s, t) == t \in Closure(g, {s})

NoRepeat(p) == \A i, j \in 1..Len(p) : i # j => p[i] # p[j]

-----------------------------------------------------------------------------
(* Properties of _shortest_path, under SpecSP.                             *)

\* the step-by-step run and the function form are the same search
SP_StepwiseAgrees ==
  pc = "done" => path = _shortest_path(graph, start, goal)

\* C1: whenever some start-to-goal path exists, the returned sequence is a path
\* of the graph whose total weight (cheapest parallel entry per hop) is the
\* minimum over all start-to-goal paths.
C1_ShortestIsMinimal ==
  (pc = "done" /\ WalksFromTo(graph, start, goal) # {}) =>
    /\ path # <<>>
    /\ IsWalk(graph, path)
    /\ PathWeight(graph, path) =
         SetMin({PathWeight(graph, p) : p \in WalksFromTo(graph, start, goal)})

\* a two-hop result that beats a heavier direct entry from start to goal
C1_Witness ==
  /\ pc = "done" /\ Len(path) = 3
  /\ HasEntry(graph, start, goal)
  /\ PathWeight(graph, path) < MinEntry(graph, start, goal)

\* C2: a non-empty result begins with start, ends with goal, repeats no node,
\* and each consecutive pair is an adjacency entry of the searched graph.
C2_PathWellFormed ==
  (pc = "done" /\ path # <<>>) =>
    /\ path[1] = start
    /\ path[Len(path)] = goal
    /\ NoRepeat(path)
    /\ IsWalk(graph, path)

\* a two-hop result in a graph with a zero-weight entry back into the path
C2_Witness ==
  /\ pc = "done" /\ Len(path) = 3
  /\ \E i \in 1..Len(Adj(graph, path[2])) :
       Adj(graph, path[2])[i] = <<path[1], 0>>

\* C3: for start # goal the result is empty exactly when goal is unreachable.
C3_EmptyIffUnreachable ==
  (pc = "done" /\ start # goal) =>
    ((path = <<>>) <=> ~Reachable(graph, start, goal))

\* both outcomes happen for the same start: an empty result although start
\* has entries, in a graph that is not connected
C3_Witness ==
  /\ pc = "done" /\ start # goal /\ path = <<>>
  /\ Adj(graph, start) # <<>>
  /\ goal \in DOMAIN graph

\* C4: with start = goal the result is exactly <<start>>, whatever the graph.
C4_SameNode == (pc = "done" /\ start = goal) => path = <<start>>

\* start = goal on a node that is no key of the graph
C4_Witness ==
  /\ pc = "done" /\ start = goal /\ path = <<start>>
  /\ start \notin DOMAIN graph /\ graph # EmptyMap

-----------------------------------------------------------------------------
(* Properties of the graph builders.                                       *)

Count(seq, e) == Cardinality({i \in 1..Len(seq) : seq[i] = e})

\* the unordered node pairs a way contributes
PairsOf(way) == {{way.nodes[i - 1], way.nodes[i]} : i \in 2..Len(way.nodes)}

Perms(seq) ==
  {[i \in 1..Len(seq) |-> seq[f[i]]] :
     f \in {g \in [1..Len(seq) -> 1..Len(seq)] :
              \A i, j \in 1..Len(seq) : i # j => g[i] # g[j]}}

\* the highest-ranked category among the ways of ws that contain the pair
TopCategory(ws, ekey) ==
  CHOOSE c \in {ws[k].category : k \in {j \in 1..Len(ws) : ekey \in PairsOf(ws[j])}} :
    \A k \in 1..Len(ws) : ekey \in PairsOf(ws[k]) => type_rank(ws[k].category) <= type_rank(c)

\* C7 as stated: when both searches succeed for the same start and goal, the
\* hybrid path's total weight is never smaller than the pedestrian path's.
C7_HybridNotShorter ==
  (pc = "searched" /\ path # <<>> /\ hybrid_path # <<>>) =>
    PathWeight(hybrid_graph, hybrid_path) >= PathWeight(graph, path)

\* C7 amended: whenever the pedestrian search succeeds, the hybrid search
\* succeeds too and its path's total weight is never larger than the
\* pedestrian path's.
C7_HybridNotLonger ==
  (pc = "searched" /\ path # <<>>) =>
    /\ hybrid_path # <<>>
    /\ PathWeight(hybrid_graph, hybrid_path) <= PathWeight(graph, path)

\* both searches succeed, a road way is present, and the road shortcut is used
C7_Witness ==
  /\ pc = "searched" /\ path # <<>> /\ hybrid_path # <<>>
  /\ highway_ways # <<>>
  /\ hybrid_path # path
  /\ PathWeight(hybrid_graph, hybrid_path) < PathWeight(graph, path)

\* C8: in the graph of _build_graph every adjacency entry (v, w) of u has
\* w = distance(u, v) and is mirrored by an entry (u, w) of v with the same
\* multiplicity.
C8_SymmetricWeights ==
  pc \in {"built", "hybrid"} =>
    \A u \in DOMAIN graph : \A i \in 1..Len(graph[u]) :
      LET v == graph[u][i][1]
          w == graph[u][i][2]
      IN /\ w = _haversine_m(nodes[u], nodes[v])
         /\ v \in DOMAIN graph
         /\ Count(graph[v], <<u, w>>) = Count(graph[u], <<v, w>>)

\* parallel edges: two ways contain the same pair of distinct places
C8_Witness ==
  /\ pc = "built" /\ Len(ways) = 2
  /\ \E u, v \in DOMAIN graph :
       /\ nodes[u] # nodes[v]
       /\ Count(graph[u], <<v, _haversine_m(nodes[u], nodes[v])>>) >= 2
       /\ {u, v} \in PairsOf(ways[1]) \cap PairsOf(ways[2])

\* C9: every permutation of the way list gives the same edge-category map,
\* in which each pair carries the highest-ranked category among the ways
\* containing it.
C9_RankCommutative ==
  pc \in {"built", "hybrid"} =>
    /\ \A ws \in Perms(ways) : _build_graph(nodes, ws).edge_types = edge_types
    /\ DOMAIN edge_types = UNION {PairsOf(ways[k]) : k \in 1..Len(ways)}
    /\ \A ekey \in DOMAIN edge_types : edge_types[ekey] = TopCategory(ways, ekey)

\* two ways share a pair, and the earlier one has the higher rank
C9_Witness ==
  /\ pc = "built" /\ Len(ways) = 2
  /\ PairsOf(ways[1]) \cap PairsOf(ways[2]) # {}
  /\ ways[1].category = "steps" /\ ways[2].category = "path"

\* C10: for every pair of a pedestrian way, the category map of
\* _build_hybrid_graph holds the category _build_graph gives the pair.
C10_HybridPedCategories ==
  pc = "hybrid" =>
    \A ekey \in DOMAIN edge_types :
      ekey \in DOMAIN hybrid_edge_types /\ hybrid_edge_types[ekey] = edge_types[ekey]

\* the unordered node pairs of all the ways of a list
AllPairs(ws) == UNION {PairsOf(ws[k]) : k \in 1..Len(ws)}

\* C11: in the category map of _build_hybrid_graph a pair of consecutive
\* nodes of any pedestrian way carries a pedestrian category, never the road
\* category, whatever road ways contain it; a pair carries the road category
\* only if no pedestrian way contains it (and then a road way does).
C11_RoadNeverOverrides ==
  pc = "hybrid" =>
    /\ DOMAIN hybrid_edge_types = AllPairs(ways) \cup AllPairs(highway_ways)
    /\ \A ekey \in DOMAIN hybrid_edge_types :
         /\ ekey \in AllPairs(ways) => hybrid_edge_types[ekey] \in PedCategories
         /\ hybrid_edge_types[ekey] = "highway" =>
              ekey \notin AllPairs(ways) /\ ekey \in AllPairs(highway_ways)

\* a road way and a pedestrian way contain the same pair, and a road way
\* contributes a pair of its own
C11_Witness ==
  /\ pc = "hybrid"
  /\ AllPairs(ways) \cap AllPairs(highway_ways) # {}
  /\ \E ekey \in DOMAIN hybrid_edge_types : hybrid_edge_types[ekey] = "highway"

-----------------------------------------------------------------------------
(* Properties of the navigation classifier, under SpecFetch.               *)

WayIndices == {i \in 1..Len(data) : data[i].type = "way"}

\* highway=footway, footway=crossing, crossing=marked
MarkedCrossingTags(tags) ==
  /\ tags_get(tags, "highway") = "footway"
  /\ tags_get(tags, "footway") = "crossing"
  /\ tags_get(tags, "crossing") = "marked"

\* how often u and v are next to each other in a node sequence
PairCount(seq, u, v) == Cardinality({i \in 2..Len(seq) : {seq[i - 1], seq[i]} = {u, v}})

\* how many adjacency entries of u lead to v
EntryCount(g, u, v) ==
  IF u \in DOMAIN g THEN Cardinality({i \in 1..Len(g[u]) : g[u][i][1] = v}) ELSE 0

\* PairCount summed over the way elements with index in S, each filtered to
\* the nodes of the table
RECURSIVE PairCountOver(_, _, _)
PairCountOver(S, u, v) ==
  IF S = {} THEN 0
  ELSE LET i == CHOOSE x \in S : TRUE
       IN PairCount(Filtered(data[i].nodes, nodes), u, v) + PairCountOver(S \ {i}, u, v)

\* C18: a way tagged highway=footway, footway=crossing, crossing=marked is
\* excluded by the classifier, is not in the returned way list, and no edge
\* of the graph built from the result comes from it: every returned way and
\* every adjacency entry is accounted for by the other way elements.
C18_MarkedCrossingExcluded ==
  pc \in {"input", "built"} =>
    LET marked == {i \in WayIndices : MarkedCrossingTags(data[i].tags)}
        others == WayIndices \ marked
    IN /\ \A i \in marked : ~WayCategory(data[i].tags).include_way
       /\ Len(ways) <= Cardinality(others)
       /\ \A k \in 1..Len(ways) :
            \E i \in others : ways[k].nodes = Filtered(data[i].nodes, nodes)
       /\ pc = "built" =>
            \A u \in DOMAIN nodes : \A v \in DOMAIN nodes \ {u} :
              EntryCount(graph, u, v) <= PairCountOver(others, u, v)

\* a marked crossing over present nodes next to a footway that is kept
C18_Witness ==
  /\ pc = "built" /\ graph # EmptyMap
  /\ \E i \in WayIndices :
       /\ MarkedCrossingTags(data[i].tags)
       /\ Len(Filtered(data[i].nodes, nodes)) = 3
       /\ 1 \notin DOMAIN graph

\* the crossing kinds that are marked or controlled
MarkedKinds == {"marked", "traffic_signals"}

\* the category of a tag set by the ordered rules of the claim, first match
\* wins; "" for excluded
RuleCategory(tags) ==
  LET hw == tags_get(tags, "highway")
  IN IF hw = "steps" THEN "steps"
     ELSE IF hw = "pedestrian" THEN "pedestrian_street"
     ELSE IF hw = "footway" /\ tags_get(tags, "footway") = "sidewalk" THEN "sidewalk"
     ELSE IF hw = "footway" /\ tags_get(tags, "footway") = "crossing"
             /\ tags_get(tags, "crossing") \in MarkedKinds THEN ""
     ELSE IF hw = "footway" THEN "foot_path"
     ELSE IF hw = "path" /\ (tags_get(tags, "informal") = "yes"
                               \/ tags_get(tags, "trail_visibility") # "")
          THEN "informal_path"
     ELSE IF hw = "path" THEN "path"
     ELSE ""

\* the ways the rules give for the way elements from position i on
RECURSIVE RuleWays(_)
RuleWays(i) ==
  IF i > Len(data) THEN <<>>
  ELSE (IF data[i].type = "way" /\ Len(Filtered(data[i].nodes, nodes)) >= 2
           /\ RuleCategory(data[i].tags) # ""
        THEN <<[nodes |-> Filtered(data[i].nodes, nodes),
                category |-> RuleCategory(data[i].tags)]>>
        ELSE <<>>) \o RuleWays(i + 1)

\* C19: every tag set gets the category of the first matching rule of steps,
\* pedestrian street, sidewalk, marked or controlled crossing (excluded),
\* other footway (foot path), informal path, other path, anything else
\* (excluded); a footway=crossing way whose crossing tag is absent or not a
\* marked kind is a foot path and is returned as a way.
C19_FirstMatchingRule ==
  pc \in {"input", "built"} =>
    /\ \A i \in WayIndices :
         LET c == WayCategory(data[i].tags)
         IN (IF c.include_way THEN c.category ELSE "") = RuleCategory(data[i].tags)
    /\ ways = RuleWays(1)

\* for the record: the classifier follows the rules on every tag set but
\* footway=crossing without a marked kind, which it excludes
C19_RulesButUnmarkedCrossings ==
  pc \in {"input", "built"} =>
    \A i \in WayIndices :
      LET c    == WayCategory(data[i].tags)
          tags == data[i].tags
      IN IF tags_get(tags, "highway") = "footway" /\ tags_get(tags, "footway") = "crossing"
         THEN ~c.include_way
         ELSE (IF c.include_way THEN c.category ELSE "") = RuleCategory(tags)

-----------------------------------------------------------------------------
(* Properties of the navigation request, under Spec.                       *)

Range(seq) == {seq[i] : i \in 1..Len(seq)}

RoadStages ==
  {"fetch_highways", "build_hybrid", "resolve_hybrid",
   "search_hybrid_empty", "search_hybrid_found"}

\* C5: the road fetch, the hybrid build and the hybrid search come only
\* after the pedestrian-only search between the resolved endpoints returned
\* empty; when that search returns a path no road fetch happens and the
\* route is assembled from the pedestrian graph alone.
C5_RoadsOnlyAfterEmptySearch ==
  /\ \A i \in 1..Len(events) :
       events[i] \in RoadStages =>
         /\ \E j \in 1..(i - 1) : events[j] = "search_empty"
         /\ origin_node # None /\ dest_node # None
         /\ ~Reachable(graph, origin_node, dest_node)
  /\ "search_found" \in Range(events) =>
       /\ Range(events) \cap RoadStages = {}
       /\ highway_ways = <<>> /\ highway_nodes = EmptyMap
       /\ hybrid_graph = EmptyMap
       /\ Reachable(graph, origin_node, dest_node)
       /\ response.status = "success" =>
            /\ ~response.meta.uses_highways
            /\ IsWalk(graph, path)
            /\ response.route = [i \in 1..Len(path) |-> nodes[path[i]]]
            /\ response.route_colored =
                 _segments_with_types(path, nodes, _build_graph(nodes, ways).edge_types)

\* a request answered by the road fallback after an empty pedestrian search
C5_Witness ==
  /\ response.status = "success"
  /\ "search_empty" \in Range(events)
  /\ "search_hybrid_found" \in Range(events)
  /\ Len(path) >= 3

\* C6: in a successful result uses_highways is true exactly when the route
\* has a road segment; with the flag false the road subtotal is 0.
C6_FlagIffRoadSegment ==
  response.status = "success" =>
    /\ response.meta.uses_highways <=>
         \E i \in 1..Len(response.route_colored) : response.route_colored[i].is_highway
    /\ ~response.meta.uses_highways => response.meta.highway_distance_m = 0

\* for the record: the flag is right on every route of two or more points
C6_FlagOnLongerRoutes ==
  (response.status = "success" /\ Len(response.route) >= 2) =>
    (response.meta.uses_highways <=>
       \E i \in 1..Len(response.route_colored) : response.route_colored[i].is_highway)


\* what a call of _nearest_node has to return
NearestOK(point, nd, g, max_distance_m, res) ==
  LET keys == DOMAIN nd \cap DOMAIN g
      near == {n \in keys : _haversine_m(point, nd[n]) <= max_distance_m}
  IN /\ res = None <=> near = {}
     /\ res # None =>
          /\ res \in near
          /\ \A n \in keys : _haversine_m(point, nd[res]) <= _haversine_m(point, nd[n])

\* the point an entry of attempts was made for
AttemptPoint(a) == IF a[1] = "origin" THEN origin ELSE dest

\* C12: every call of _nearest_node the request made (the widening calls on
\* the pedestrian graph, the two calls on the hybrid graph) returned a key of
\* the graph within the radius and nearest among the keys of the graph, and
\* returned none exactly when no key of the graph lies within the radius.
C12_NearestNode ==
  /\ \A i \in 1..Len(attempts) :
       NearestOK(AttemptPoint(attempts[i]), nodes, graph, attempts[i][2], attempts[i][3])
  /\ "resolve_hybrid" \in Range(events) =>
       /\ NearestOK(origin, all_nodes, hybrid_graph, 1000, hybrid_origin_node)
       /\ NearestOK(dest, all_nodes, hybrid_graph, 1000, hybrid_dest_node)

\* a call that passed over a nearer node without edges, after a call at a
\* smaller radius had returned none
C12_Witness ==
  \E i, j \in 1..Len(attempts) :
    /\ i < j /\ attempts[i][1] = attempts[j][1]
    /\ attempts[i][3] = None /\ attempts[j][3] # None
    /\ \E n \in DOMAIN nodes \ DOMAIN graph :
         _haversine_m(AttemptPoint(attempts[j]), nodes[n])
           < _haversine_m(AttemptPoint(attempts[j]), nodes[attempts[j][3]])


\* the causes a failure of the request itself is reported with
FailureCauses ==
  {"no_pedestrian_data", "no_graph", "origin_unresolved", "dest_unresolved", "no_path"}

\* C13: a request that ends in the 'no path even with road fallback' failure
\* resolved both endpoints and ran a hybrid search on the merged graph that
\* returned empty: the cause is not reported when the road fetch returned no
\* way or when an endpoint is not resolved in the hybrid graph; every failure
\* of the request itself carries one of the five causes.
C13_NoPathOnlyAfterHybridSearch ==
  /\ (response.status = "error" /\ response.cause = "no_path") =>
       /\ origin_node # None /\ dest_node # None
       /\ highway_ways # <<>>
       /\ hybrid_origin_node # None /\ hybrid_dest_node # None
       /\ "search_hybrid_empty" \in Range(events)
       /\ ~Reachable(hybrid_graph, hybrid_origin_node, hybrid_dest_node)
  /\ (response.status = "error" /\ response.code = 404) =>
       response.cause \in FailureCauses

\* for the record: 'no path' always follows an empty pedestrian search between
\* resolved endpoints, and then either the road fetch returned no way or the
\* hybrid search ran and was empty; the hybrid resolution itself never fails
C13_NoPathAfterEmptySearches ==
  /\ (response.status = "error" /\ response.cause = "no_path") =>
       /\ origin_node # None /\ dest_node # None
       /\ "search_empty" \in Range(events)
       /\ \/ highway_ways = <<>> /\ "build_hybrid" \notin Range(events)
          \/ "search_hybrid_empty" \in Range(events)
  /\ "resolve_hybrid" \in Range(events) =>
       hybrid_origin_node # None /\ hybrid_dest_node # None
  /\ (response.status = "error" /\ response.code = 404) =>
       response.cause \in FailureCauses


\* the attempts made for one endpoint, in the order they were made
AttemptsFor(which) == SelectSeq(attempts, LAMBDA a : a[1] = which)

\* attempts at 200, 500 and 1000 m in this order, each returning none
Exhausted(which) ==
  AttemptsFor(which) = [i \in 1..Len(max_search_distances) |->
                          <<which, max_search_distances[i], None>>]

SearchStages ==
  {"search_empty", "search_found", "fetch_highways", "build_hybrid",
   "resolve_hybrid", "search_hybrid_empty", "search_hybrid_found", "assemble"}

\* C14: an origin-unresolved (destination-unresolved) failure is reported
\* only after _nearest_node was tried for that endpoint at 200, 500 and 1000 m
\* in this order and returned none each time; with both endpoints unresolved
\* the origin failure is reported; no search starts while an endpoint is
\* unresolved.
C14_UnresolvedAfterAllRadii ==
  /\ (response.status = "error" /\ response.cause = "origin_unresolved") =>
       origin_node = None /\ Exhausted("origin")
  /\ (response.status = "error" /\ response.cause = "dest_unresolved") =>
       dest_node = None /\ Exhausted("dest") /\ origin_node # None
  /\ ("resolve" \in Range(events) /\ (origin_node = None \/ dest_node = None)) =>
       /\ response.status = "error"
       /\ response.cause = (IF origin_node = None THEN "origin_unresolved"
                                                  ELSE "dest_unresolved")
       /\ Range(events) \cap SearchStages = {}
       /\ path = <<>>
  /\ \A i \in 1..Len(attempts) : \A j \in 1..Len(attempts) :
       (i < j /\ attempts[i][1] = attempts[j][1]) =>
          attempts[i][2] < attempts[j][2] /\ attempts[i][3] = None

\* the destination is reported unresolved although the origin was found at
\* the first radius
C14_Witness ==
  /\ response.status = "error" /\ response.cause = "dest_unresolved"
  /\ AttemptsFor("origin") # <<>> /\ AttemptsFor("origin")[1][3] # None
  /\ Len(AttemptsFor("dest")) = 3

\* both endpoints unresolved: the origin is the one reported
C14_BothUnresolved ==
  /\ response.status = "error" /\ response.cause = "origin_unresolved"
  /\ dest_node = None /\ Len(attempts) = 6


\* the stages of a request: at each of them one action of Next is enabled,
\* and no stage is entered twice
Stages ==
  {"parse", "fetch_pedestrian", "build_graph", "resolve", "search",
   "fetch_highways", "build_hybrid", "resolve_hybrid", "search_hybrid", "assemble"}

\* C15: every request, whatever its query parameters and whatever the
\* fetches return, ends in a structured success or a structured failure with
\* a reason; no exception leaves the handler.
C15_AlwaysStructured ==
  /\ pc = "done" =>
       \/ response.status = "success"
       \/ response.status = "error" /\ response.code \in {400, 404, 500}
  /\ pc \in Stages \cup {"done"}
  /\ Len(events) <= Cardinality(Stages)

\* for the record: the only exception that leaves the handler is the
\* ValueError of float() on radius_m (line 94), whatever origin and dest are
C15_FaultOnlyFromRadius ==
  /\ response.status = "fault" <=>
       (pc = "done" /\ "radius_m" \in DOMAIN args /\ FloatRaises(args["radius_m"]))
  /\ pc \in Stages \cup {"done"}
  /\ Len(events) <= Cardinality(Stages)


\* C16: a failed pedestrian or road fetch ends the request in the
\* collaborator failure (500), which is none of the data-sparsity,
\* resolution and no-path failures (404), nothing runs after it, and each
\* fetch is called at most once per request.
C16_FetchFailureDistinct ==
  /\ "fetch_raised" \in Range(events) =>
       /\ pc = "done"
       /\ events[Len(events)] = "fetch_raised"
       /\ response.status = "error" /\ response.code = 500
       /\ response.cause = "fetch_failed"
  /\ (response.status = "error" /\ response.cause \in FailureCauses) =>
       response.code = 404 /\ "fetch_raised" \notin Range(events)
  /\ Count(events, "fetch_pedestrian") <= 1
  /\ Count(events, "fetch_highways") <= 1
  /\ Count(events, "fetch_raised") <= 1

\* the road fetch fails during the fallback
C16_Witness ==
  /\ "search_empty" \in Range(events)
  /\ "fetch_highways" \in Range(events)
  /\ "fetch_raised" \in Range(events)
  /\ response.status = "error" /\ response.code = 500


\* the stages that follow the road fetch
HybridStages ==
  {"build_hybrid", "resolve_hybrid", "search_hybrid_empty", "search_hybrid_found"}

\* C17: a pedestrian fetch that returns no way ends the request in the
\* data-sparsity failure with the radius used, and no graph is built, no
\* endpoint resolved, no search run and no road fetched; a road fetch that
\* returns no way ends the request in a structured failure, and no hybrid
\* graph is built or searched.
C17_ZeroWaysReported ==
  /\ ("fetch_pedestrian" \in Range(events) /\ "fetch_raised" \notin Range(events)
        /\ ways = <<>>) =>
       /\ pc = "done"
       /\ response.status = "error" /\ response.code = 404
       /\ response.cause = "no_pedestrian_data"
       /\ response.radius_m =
            Max(float(IF "radius_m" \in DOMAIN args THEN args["radius_m"]
                                                     ELSE DefaultRadius),
                (3 * _haversine_m(origin, dest)) \div 2)
       /\ events = <<"parse", "fetch_pedestrian">>
       /\ graph = EmptyMap /\ edge_types = EmptyMap /\ attempts = <<>>
       /\ origin_node = None /\ dest_node = None /\ path = <<>>
       /\ highway_ways = <<>> /\ highway_nodes = EmptyMap
  /\ (response.status = "error" /\ response.cause = "no_pedestrian_data") => ways = <<>>
  /\ ("fetch_highways" \in Range(events) /\ "fetch_raised" \notin Range(events)
        /\ highway_ways = <<>>) =>
       /\ pc = "done"
       /\ response.status = "error" /\ response.code = 404
       /\ Range(events) \cap HybridStages = {}
       /\ hybrid_graph = EmptyMap /\ hybrid_edge_types = EmptyMap
       /\ hybrid_path = <<>> /\ path = <<>>

\* no pedestrian way around two points so far apart that the radius used is
\* the one derived from their distance
C17_Witness ==
  /\ response.status = "error" /\ response.cause = "no_pedestrian_data"
  /\ "radius_m" \in DOMAIN args
  /\ response.radius_m > float(args["radius_m"])

\* the road fetch of the fallback returns no way
C17_NoRoadWay ==
  /\ "fetch_highways" \in Range(events) /\ "fetch_raised" \notin Range(events)
  /\ highway_ways = <<>> /\ pc = "done"


\* the ground distance of the pairs of the path from position i on whose
\* category is (road = TRUE) or is not (road = FALSE) the road category
RECURSIVE GroundDistance(_, _)
GroundDistance(i, road) ==
  IF i >= Len(path) THEN 0
  ELSE (IF ({path[i], path[i + 1]} \in DOMAIN edge_types
              /\ edge_types[{path[i], path[i + 1]}] = "highway") = road
        THEN _haversine_m(nodes[path[i]], nodes[path[i + 1]]) ELSE 0)
       + GroundDistance(i + 1, road)

\* C20: the assembled route has one segment per consecutive pair of the
\* path, in path order, whose is-road flag is true exactly when the pair's
\* category is the road category; the total distance is the pedestrian
\* subtotal plus the road subtotal, and each subtotal is the sum of the
\* ground distances of its segments, without the road multiplier.
C20_SegmentsAndDistances ==
  response.status = "success" =>
    LET segs == response.route_colored
    IN /\ Len(segs) = Len(path) - 1
       /\ \A i \in 1..Len(segs) :
            /\ segs[i].from = nodes[path[i]]
            /\ segs[i].to = nodes[path[i + 1]]
            /\ {path[i], path[i + 1]} \in DOMAIN edge_types
            /\ segs[i].category = edge_types[{path[i], path[i + 1]}]
            /\ segs[i].is_highway <=> segs[i].category = "highway"
       /\ response.meta.distance_m =
            response.meta.pedestrian_distance_m + response.meta.highway_distance_m
       /\ response.meta.pedestrian_distance_m = GroundDistance(1, FALSE)
       /\ response.meta.highway_distance_m = GroundDistance(1, TRUE)
       /\ response.meta.uses_highways =>
            PathWeight(hybrid_graph, path) =
              GroundDistance(1, FALSE) * pedestrian_weight
                + GroundDistance(1, TRUE) * highway_weight

\* a route over pedestrian segments and road segments
C20_Witness ==
  /\ response.status = "success"
  /\ response.meta.pedestrian_distance_m > 0
  /\ response.meta.highway_distance_m > 0
  /\ Len(response.route_colored) >= 4

\* C21: in a successful result the network holds one polyline for every way
\* fetched during the request, the road ways of the fallback included, and the
\* reported way count covers them.
C21_NetworkCoversAllWays ==
  response.status = "success" =>
    /\ response.network = _network_geometries(nodes, ways \o highway_ways)
    /\ Len(response.network) = Len(ways) + Len(highway_ways)
    /\ response.meta.ways = Len(ways) + Len(highway_ways)

\* for the record: the network holds one polyline per pedestrian way, with
\* the way's category and the places of its nodes, and the way count is the
\* number of pedestrian ways, with or without the road fallback
C21_NetworkOfPedestrianWays ==
  response.status = "success" =>
    /\ Len(response.network) = Len(ways)
    /\ \A k \in 1..Len(ways) :
         /\ response.network[k].category = ways[k].category
         /\ response.network[k].coords =
              [i \in 1..Len(ways[k].nodes) |-> nodes[ways[k].nodes[i]]]
    /\ response.meta.ways = Len(ways)

-----------------------------------------------------------------------------
(* Properties of the hybrid graph, under SpecHybrid.                       *)

\* how often u and v are next to each other in the ways of a list
RECURSIVE WaysPairCount(_, _, _)
WaysPairCount(ws, u, v) ==
  IF ws = <<>> THEN 0
  ELSE PairCount(ws[1].nodes, u, v) + WaysPairCount(Tail(ws), u, v)

\* C22: in the graph of _build_hybrid_graph every adjacency entry between u
\* and v weighs distance(u, v) times the pedestrian or the road multiplier
\* and is mirrored with the same weight; every consecutive pair of a
\* pedestrian way has an entry with the pedestrian multiplier and every
\* consecutive pair of a road way one with the road multiplier, so a pair of
\* both kinds keeps both edges, and the search pays no more than the cheaper.
C22_HybridWeights ==
  pc \in {"hybrid", "searched"} =>
    /\ \A u \in NodeIds : \A v \in NodeIds \ {u} :
         LET d    == _haversine_m(nodes[u], nodes[v])
             ped  == WaysPairCount(ways, u, v)
             road == WaysPairCount(highway_ways, u, v)
             adj  == Adj(hybrid_graph, u)
         IN /\ EntryCount(hybrid_graph, u, v) = ped + road
            /\ IF d * pedestrian_weight = d * highway_weight
               THEN Count(adj, <<v, d * pedestrian_weight>>) = ped + road
               ELSE /\ Count(adj, <<v, d * pedestrian_weight>>) = ped
                    /\ Count(adj, <<v, d * highway_weight>>) = road
            /\ \A w \in {adj[i][2] : i \in 1..Len(adj)} :
                 Count(Adj(hybrid_graph, v), <<u, w>>) = Count(adj, <<v, w>>)
    /\ (pc = "searched" /\ start # goal /\ WaysPairCount(ways, start, goal) > 0) =>
         /\ hybrid_path # <<>>
         /\ PathWeight(hybrid_graph, hybrid_path)
              <= _haversine_m(nodes[start], nodes[goal]) * pedestrian_weight

\* a pair of two different places covered by a pedestrian way and a road
\* way: both edges are kept, and the search between them has run
C22_Witness ==
  /\ pc = "searched" /\ start # goal
  /\ nodes[start] # nodes[goal]
  /\ WaysPairCount(ways, start, goal) > 0
  /\ WaysPairCount(highway_ways, start, goal) > 0
  /\ Len(hybrid_path) = 2

-----------------------------------------------------------------------------
(* Properties of the pedestrian graph of a response, under SpecFetch.      *)

\* the positions of the way elements of the response
WayElements == {i \in 1..Len(data) : data[i].type = "way"}

\* C23: every edge of the pedestrian graph joins two nodes that are
\* consecutive in the original node sequence of some way of the response: a
\* pair with a node missing from the node table is skipped and not bridged,
\* and a way with fewer than two present nodes contributes no edge.
C23_EdgesJoinOriginalNeighbours ==
  pc = "built" =>
    \A u \in DOMAIN graph : \A k \in 1..Len(graph[u]) :
      \E i \in WayElements :
        /\ PairCount(data[i].nodes, u, graph[u][k][1]) > 0
        /\ Len(Filtered(data[i].nodes, nodes)) >= 2

\* for the record: every edge joins two nodes that are consecutive in what
\* line 456 leaves of a way's sequence, the missing nodes taken out, and a
\* way with fewer than two present nodes contributes none.
C23_EdgesJoinFilteredNeighbours ==
  pc = "built" =>
    \A u \in DOMAIN graph : \A k \in 1..Len(graph[u]) :
      \E i \in WayElements :
        /\ PairCount(Filtered(data[i].nodes, nodes), u, graph[u][k][1]) > 0
        /\ Len(Filtered(data[i].nodes, nodes)) >= 2

-----------------------------------------------------------------------------
(* Properties of the steps of _shortest_path, under SpecSP.                *)

\* the search state that the loop of _shortest_path works on
searchState == <<dist, prev, heap, visited, popped>>

\* the weights of the adjacency entries from u to v
EntryWeights(g, u, v) ==
  {Adj(g, u)[k][2] : k \in {j \in 1..Len(Adj(g, u)) : Adj(g, u)[j][1] = v}}

\* C24: _shortest_path leaves its loop in the step that pops and settles the
\* goal, and otherwise only with an empty frontier, never because the goal
\* has merely been discovered; after the goal is popped no node is settled
\* and no edge relaxed; and while the goal is discovered but not popped, the
\* step that settles a node with a cheaper way to it lowers the goal's
\* distance and replaces its predecessor.
C24_StopsWhenGoalPopped ==
  [][/\ goal \in visited => UNCHANGED searchState
     /\ (goal \notin visited /\ goal \in visited') =>
          /\ pc' = "reconstruct"
          /\ popped' = Append(popped, goal)
          /\ UNCHANGED <<dist, prev>>
     /\ (pc = "loop" /\ pc' # "loop") =>
          \/ goal \notin visited /\ goal \in visited'
          \/ heap = {} /\ UNCHANGED searchState
     /\ (visited' # visited /\ goal \notin visited' /\ goal \in DOMAIN dist) =>
          LET u == CHOOSE n \in visited' : n \notin visited
              W == EntryWeights(graph, u, goal)
          IN /\ pc' = "loop"
             /\ IF \E w \in W : dist[u] + w < dist[goal]
                THEN /\ dist'[goal] = dist[u] + SetMin(W)
                     /\ prev'[goal] = u
                ELSE /\ dist'[goal] = dist[goal]
                     /\ prev'[goal] = prev[goal]]_vars

\* the search is over with the goal popped, and the frontier still holds an
\* entry of the goal from its first discovery, dearer than the distance it
\* was popped with: the goal was lowered between discovery and pop
C24_Witness ==
  /\ pc = "done"
  /\ popped # <<>> /\ popped[Len(popped)] = goal
  /\ \E e \in heap : e[2] = goal /\ e[1] > dist[goal]
  /\ PathWeight(graph, path) = dist[goal]

-----------------------------------------------------------------------------
(* Properties of the staged endpoint resolution, under Spec.               *)

\* what one call of _nearest_node on the pedestrian graph returns
SingleCall(point, radius) ==
  _nearest_node(point, KeysInOrder(DOMAIN nodes), nodes, graph, radius)

Radii == Range(max_search_distances)

\* the first radius at which both endpoints have a node, the last radius of
\* the list when there is none
StopRadius ==
  LET both == {r \in Radii : SingleCall(origin, r) # None /\ SingleCall(dest, r) # None}
  IN IF both = {} THEN max_search_distances[Len(max_search_distances)]
     ELSE SetMin(both)

\* the radii at which the loop looks an endpoint up: up to the stop radius,
\* and only while no smaller radius has resolved it
LookupRadii(point) ==
  {r \in Radii : r <= StopRadius
                 /\ \A q \in Radii : q < r => SingleCall(point, q) = None}

\* C25: in the staged resolution an endpoint resolved at a smaller radius is
\* not looked up again at a later radius while the other endpoint is widened;
\* the node chosen for each endpoint is the node one _nearest_node call at
\* 1000 m returns; the loop stops at the first radius at which both endpoints
\* are resolved.
C25_StagedResolution ==
  "resolve" \in Range(events) =>
    /\ origin_node = SingleCall(origin, 1000)
    /\ dest_node = SingleCall(dest, 1000)
    /\ \A which \in {"origin", "dest"} :
         LET att   == AttemptsFor(which)
             point == IF which = "origin" THEN origin ELSE dest
         IN /\ \A i \in 1..Len(att) : att[i][3] # None => i = Len(att)
            /\ {att[i][2] : i \in 1..Len(att)} = LookupRadii(point)
            /\ Len(att) = Cardinality(LookupRadii(point))
    /\ \A i \in 1..Len(attempts) : attempts[i][2] <= StopRadius

\* the origin resolved at the first radius and was looked up once, while the
\* destination was widened and resolved at a later radius
C25_Witness ==
  /\ "resolve" \in Range(events)
  /\ Len(AttemptsFor("origin")) = 1 /\ origin_node # None
  /\ Len(AttemptsFor("dest")) >= 2 /\ dest_node # None

-----------------------------------------------------------------------------
(* _fetch_overpass_data, app.py lines 27-57: one action per iteration of   *)
(* the loop over OverpassURLs.  What an endpoint does when posted to is    *)
(* the input of the iteration: it answers with data, or the post, the      *)
(* status test or the decoding raises.                                     *)

\* lines 19-24
OverpassURLs ==
  <<"overpass-api.de", "overpass.kumi.systems", "z.overpass-api.de",
    "overpass.openstreetmap.ru">>

\* the exceptions of lines 43, 47 and 51, most specific first
FailureKinds == {"Timeout", "RequestException", "Exception"}

\* the bodies an endpoint answers with
OverpassPayloads ==
  {<<>>, NodeElements({NumNodes - 1, NumNodes}) \o <<PlainFootway>>}

Reply(body) == [kind |-> "ok", data |-> body]

Failure(kind) == [kind |-> kind]

Contact(url, outcome) == [url |-> url, outcome |-> outcome]

\* lines 36-42: the endpoint answers, the call returns its data
EndpointSucceeds ==
  /\ pc = "try" /\ url_index <= Len(OverpassURLs)
  /\ \E body \in OverpassPayloads :
       /\ contacted' = Append(contacted, Contact(OverpassURLs[url_index], Reply(body)))
       /\ fetched' = [status |-> "returned", data |-> body]
  /\ pc' = "fetched"
  /\ UNCHANGED <<url_index, last_error>>
  /\ UNCHANGED <<graph, start, goal, path>>
  /\ UNCHANGED spVars /\ UNCHANGED buildVars
  /\ UNCHANGED <<origin, dest, origin_node, dest_node, highway_nodes, all_nodes,
                 hybrid_origin_node, hybrid_dest_node, use_highways, response,
                 events, attempts>>
  /\ UNCHANGED reqVars /\ UNCHANGED facilityVars

\* EndpointFails that gives the loop up on an error that is no request error
EndpointFailsGivesUp ==
  /\ pc = "try" /\ url_index <= Len(OverpassURLs)
  /\ \E kind \in FailureKinds :
       /\ contacted' = Append(contacted, Contact(OverpassURLs[url_index], Failure(kind)))
       /\ last_error' = Failure(kind)
       /\ url_index' = IF kind = "Exception" THEN Len(OverpassURLs) + 1
                                             ELSE url_index + 1
  /\ UNCHANGED <<fetched, pc>>
  /\ UNCHANGED <<graph, start, goal, path>>
  /\ UNCHANGED spVars /\ UNCHANGED buildVars
  /\ UNCHANGED <<origin, dest, origin_node, dest_node, highway_nodes, all_nodes,
                 hybrid_origin_node, hybrid_dest_node, use_highways, response,
                 events, attempts>>
  /\ UNCHANGED reqVars /\ UNCHANGED facilityVars

\* lines 43-54: an exception in the try block, the loop goes on
EndpointFails ==
  /\ pc = "try" /\ url_index <= Len(OverpassURLs)
  /\ \E kind \in FailureKinds :
       /\ contacted' = Append(contacted, Contact(OverpassURLs[url_index], Failure(kind)))
       /\ last_error' = Failure(kind)
  /\ url_index' = url_index + 1
  /\ UNCHANGED <<fetched, pc>>
  /\ UNCHANGED <<graph, start, goal, path>>
  /\ UNCHANGED spVars /\ UNCHANGED buildVars
  /\ UNCHANGED <<origin, dest, origin_node, dest_node, highway_nodes, all_nodes,
                 hybrid_origin_node, hybrid_dest_node, use_highways, response,
                 events, attempts>>
  /\ UNCHANGED reqVars /\ UNCHANGED facilityVars

\* line 57: the list is used up
AllEndpointsFailed ==
  /\ pc = "try" /\ url_index > Len(OverpassURLs)
  /\ fetched' = [status |-> "raised", exception |-> "all_endpoints_failed",
                 last_error |-> last_error]
  /\ pc' = "fetched"
  /\ UNCHANGED <<url_index, contacted, last_error>>
  /\ UNCHANGED <<graph, start, goal, path>>
  /\ UNCHANGED spVars /\ UNCHANGED buildVars
  /\ UNCHANGED <<origin, dest, origin_node, dest_node, highway_nodes, all_nodes,
                 hybrid_origin_node, hybrid_dest_node, use_highways, response,
                 events, attempts>>
  /\ UNCHANGED reqVars /\ UNCHANGED facilityVars

\* lines 32-34
InitOverpass ==
  /\ url_index = 1
  /\ contacted = <<>>
  /\ last_error = NoError
  /\ fetched = NoFetch
  /\ pc = "try"
  /\ NoFacilities
  /\ NoData
  /\ NoBuild
  /\ NoNav
  /\ graph = EmptyMap
  /\ path = <<>>
  /\ dist = EmptyMap /\ prev = EmptyMap /\ heap = {} /\ visited = {}
  /\ popped = <<>>
  /\ start = None
  /\ goal = None

NextOverpass == EndpointSucceeds \/ EndpointFails \/ AllEndpointsFailed

SpecOverpass == InitOverpass /\ [][NextOverpass]_vars

-----------------------------------------------------------------------------
(* _overpass_query, osm_facilities.py lines 90-114: the same loop, as a    *)
(* function of what the endpoints do.                                      *)

\* lines 56-61
_OVERPASS_URLS == OverpassURLs

\* lines 92-111: the loop from position i on; outcomes[i] is what endpoint i
\* does when it is posted to
RECURSIVE QueryLoop(_, _, _, _)
QueryLoop(outcomes, i, err, log) ==
  IF i > Len(_OVERPASS_URLS)
  THEN [status |-> "raised", exception |-> "all_endpoints_failed",
        last_error |-> err, contacted |-> log]
  ELSE LET entry == Contact(_OVERPASS_URLS[i], outcomes[i])
       IN IF outcomes[i].kind = "ok"
          THEN [status |-> "returned", data |-> outcomes[i].data,
                contacted |-> Append(log, entry)]
          ELSE QueryLoop(outcomes, i + 1, outcomes[i], Append(log, entry))

_overpass_query(outcomes) == QueryLoop(outcomes, 1, NoError, <<>>)

-----------------------------------------------------------------------------
(* Properties of the endpoint loop, under SpecOverpass.                    *)

\* what the endpoints did, the ones never posted to filled in as timeouts
OutcomesSeen ==
  [i \in 1..Len(OverpassURLs) |->
     IF i <= Len(contacted) THEN contacted[i].outcome ELSE Failure("Timeout")]

\* C26: _fetch_overpass_data posts to the endpoints in the order of the
\* list, to each at most once; it returns the data of the first endpoint that
\* answers and posts to none after it; it raises its 'all endpoints failed'
\* error only when every endpoint of the list was posted to and failed, by a
\* timeout, a request error or any other error.  The loop of _overpass_query
\* does the same.
C26_EndpointsInOrder ==
  /\ Len(contacted) <= Len(OverpassURLs)
  /\ \A i \in 1..Len(contacted) :
       /\ contacted[i].url = OverpassURLs[i]
       /\ i < Len(contacted) => contacted[i].outcome.kind \in FailureKinds
  /\ pc = "try" =>
       /\ fetched = NoFetch
       /\ \A i \in 1..Len(contacted) : contacted[i].outcome.kind \in FailureKinds
       /\ url_index = Len(contacted) + 1
  /\ pc = "fetched" =>
       /\ fetched.status \in {"returned", "raised"}
       /\ fetched.status = "returned" =>
            /\ contacted # <<>>
            /\ contacted[Len(contacted)].outcome = Reply(fetched.data)
       /\ fetched.status = "raised" =>
            /\ Len(contacted) = Len(OverpassURLs)
            /\ \A i \in 1..Len(contacted) : contacted[i].outcome.kind \in FailureKinds
            /\ fetched.last_error = contacted[Len(contacted)].outcome
       /\ LET q == _overpass_query(OutcomesSeen)
          IN /\ q.status = fetched.status
             /\ q.contacted = contacted
             /\ q.status = "returned" => q.data = fetched.data
             /\ q.status = "raised" => q.last_error = fetched.last_error

\* the third endpoint answered after a timeout of the first and another
\* error of the second; the fourth was not posted to
C26_Witness ==
  /\ pc = "fetched" /\ fetched.status = "returned"
  /\ Len(contacted) = 3
  /\ contacted[1].outcome = Failure("Timeout")
  /\ contacted[2].outcome = Failure("Exception")
  /\ fetched.data # <<>>

\* every endpoint failed, each in another way or the same, and the call raised
C26_AllFailed ==
  /\ pc = "fetched" /\ fetched.status = "raised"
  /\ {contacted[i].outcome.kind : i \in 1..Len(contacted)} = FailureKinds

-----------------------------------------------------------------------------
(* get_or_refresh_facilities, osm_facilities.py lines 176-201: one action  *)
(* per way through the function.  The data directory is the map cache from *)
(* station key to the content of the station's file; the content is what   *)
(* json.dump writes, with numbers as numerals and None as null.            *)

MaxRefreshes == 2

\* lines 12-24
STATIONS ==
  [s \in {"dadar", "kurla"} |->
     IF s = "dadar" THEN [radius_m |-> 700, prefix |-> "Dadar"]
                    ELSE [radius_m |-> 800, prefix |-> "Kurla"]]

\* the station keys a caller passes: the two of STATIONS and another one
StationKeys == DOMAIN STATIONS \cup {"thane"}

Mapping(readable, patterns) == [readable |-> readable, patterns |-> patterns]

\* lines 28-52, in the order of the dict
TAG_MAPPINGS ==
  << Mapping("Toilet", <<(<<"amenity", "toilets">>)>>),
     Mapping("ATM", <<(<<"amenity", "atm">>)>>),
     Mapping("Bank", <<(<<"amenity", "bank">>)>>),
     Mapping("Drinking_Water", <<(<<"amenity", "drinking_water">>)>>),
     Mapping("Food", <<(<<"amenity", "fast_food">>)>>),
     Mapping("Food", <<(<<"amenity", "restaurant">>)>>),
     Mapping("Food", <<(<<"amenity", "cafe">>)>>),
     Mapping("Food", <<(<<"amenity", "food_court">>)>>),
     Mapping("Waiting_Area", <<(<<"amenity", "waiting_room">>)>>),
     Mapping("Seating", <<(<<"amenity", "bench">>)>>),
     Mapping("Bicycle_Parking", <<(<<"amenity", "bicycle_parking">>)>>),
     Mapping("Parking", <<(<<"amenity", "parking">>)>>),
     Mapping("Police", <<(<<"amenity", "police">>)>>),
     Mapping("Medical", <<(<<"amenity", "clinic">>)>>),
     Mapping("Medical", <<(<<"amenity", "hospital">>)>>),
     Mapping("Medical", <<(<<"amenity", "pharmacy">>)>>),
     Mapping("Medical", <<(<<"emergency", "first_aid_kit">>)>>),
     Mapping("Elevator", <<(<<"highway", "elevator">>)>>),
     Mapping("Information", << <<"tourism", "information">>, <<"amenity", "information">> >>),
     Mapping("Ticket_Counter", << <<"railway", "ticket_validator">>,
                                  <<"amenity", "ticket_validator">>,
                                  <<"amenity", "ticket_office">> >>),
     Mapping("Entrance", << <<"entrance", "yes">>, <<"railway", "station_entrance">> >>) >>

\* lines 135-142: the readable type of the first mapping with a pattern the
\* tags match, from mapping i on; "" when there is none
RECURSIVE MappedType(_, _)
MappedType(tags, i) ==
  IF i > Len(TAG_MAPPINGS) THEN ""
  ELSE LET pats == TAG_MAPPINGS[i].patterns
       IN IF \E j \in 1..Len(pats) :
               pats[j][1] \in DOMAIN tags /\ tags[pats[j][1]] = pats[j][2]
          THEN TAG_MAPPINGS[i].readable
          ELSE MappedType(tags, i + 1)

\* str.title().replace(' ', '_') on the tag values of the model
Title(s) ==
  IF s = "kiosk" THEN "Kiosk"
  ELSE IF s = "taxi stand" THEN "Taxi_Stand"
  ELSE IF s = "platform" THEN "Platform"
  ELSE IF s = "toilets" THEN "Toilets"
  ELSE IF s = "ticket_validator" THEN "Ticket_Validator"
  ELSE "Other"

\* lines 132-153
ClassifiedType(tags) ==
  IF MappedType(tags, 1) # "" THEN MappedType(tags, 1)
  ELSE IF "amenity" \in DOMAIN tags THEN Title(tags["amenity"])
  ELSE IF "railway" \in DOMAIN tags THEN Title(tags["railway"])
  ELSE IF "tourism" \in DOMAIN tags THEN Title(tags["tourism"])
  ELSE "Facility"

\* a or b, on coordinates that are None or not zero
Or(a, b) == IF a # None THEN a ELSE b

\* lines 121-123: counters.get(key, 0) + 1
next_index(counters, key) == IF key \in DOMAIN counters THEN counters[key] + 1 ELSE 1

\* tags.get('name'): no name is the empty sequence, a name a sequence of one
RawName(tags) == IF "name" \in DOMAIN tags THEN <<tags["name"]>> ELSE <<>>

\* lines 125-167: the features from position i on
RECURSIVE ClassifyLoop(_, _, _, _, _)
ClassifyLoop(features, i, station_prefix, counters, results) ==
  IF i > Len(features) THEN results
  ELSE LET el  == features[i]
           lat == Or(el.lat, el.center.lat)
           lon == Or(el.lon, el.center.lon)
       IN IF lat = None \/ lon = None
          THEN ClassifyLoop(features, i + 1, station_prefix, counters, results)
          ELSE LET classified_type == ClassifiedType(el.tags)
                   idx == next_index(counters, classified_type)
               IN ClassifyLoop(features, i + 1, station_prefix,
                    Put(counters, classified_type, idx),
                    Append(results,
                      [id       |-> el.id,
                       name     |-> <<station_prefix, classified_type, Numeral(idx)>>,
                       type     |-> classified_type,
                       lat      |-> lat,
                       lng      |-> lon,
                       raw_name |-> RawName(el.tags),
                       tags     |-> el.tags]))

_classify_and_name(features, station_prefix) ==
  ClassifyLoop(features, 1, station_prefix, EmptyMap, <<>>)

\* json.dump of a number, a string, an optional string
DumpNumber(n) == <<"number", Numeral(n)>>

DumpString(s) == <<"string", s>>

DumpOptional(o) == IF o = <<>> THEN <<"null">> ELSE <<"string", o[1]>>

LoadNumber(v) == float(v[2])

LoadString(v) == v[2]

LoadOptional(v) == IF v[1] = "null" THEN <<>> ELSE <<v[2]>>

\* lines 198-199: json.dump(payload, f)
json_dump(payload) ==
  [station    |-> DumpString(payload.station),
   updated_at |-> DumpString(payload.updated_at),
   count      |-> DumpNumber(payload.count),
   facilities |->
     [i \in 1..Len(payload.facilities) |->
        LET f == payload.facilities[i]
        IN [id       |-> DumpNumber(f.id),
            name     |-> DumpString(f.name),
            type     |-> DumpString(f.type),
            lat      |-> DumpNumber(f.lat),
            lng      |-> DumpNumber(f.lng),
            raw_name |-> DumpOptional(f.raw_name),
            tags     |-> [k \in DOMAIN f.tags |-> DumpString(f.tags[k])]]]]

\* lines 183-184: json.load(f)
json_load(content) ==
  [station    |-> LoadString(content.station),
   updated_at |-> LoadString(content.updated_at),
   count      |-> LoadNumber(content.count),
   facilities |->
     [i \in 1..Len(content.facilities) |->
        LET f == content.facilities[i]
        IN [id       |-> LoadNumber(f.id),
            name     |-> LoadString(f.name),
            type     |-> LoadString(f.type),
            lat      |-> LoadNumber(f.lat),
            lng      |-> LoadNumber(f.lng),
            raw_name |-> LoadOptional(f.raw_name),
            tags     |-> [k \in DOMAIN f.tags |-> LoadString(f.tags[k])]]]]

\* line 193: datetime.utcnow().isoformat() + 'Z'
Timestamp(t) == Append(Numeral(t), "Z")

\* lines 191-196
Payload(station_key, t, facilities) ==
  [station    |-> station_key,
   updated_at |-> Timestamp(t),
   count      |-> Len(facilities),
   facilities |-> facilities]

\* the elements of the model
NoCenter == [lat |-> None, lon |-> None]

Element(id, tags, lat, lon, center) ==
  [id |-> id, tags |-> tags, lat |-> lat, lon |-> lon, center |-> center]

Tags1(k, v) == [x \in {k} |-> v]

Tags2(k1, v1, k2, v2) == [x \in {k1, k2} |-> IF x = k1 THEN v1 ELSE v2]

\* the bodies the endpoints answer a facilities query with: none; two
\* toilets, one of them a named way with a centre; a kiosk, an element
\* without coordinates, a validator that is a ticket counter, an untagged node
RawResponses ==
  { <<>>,
    << Element(1, Tags1("amenity", "toilets"), 19, 72, NoCenter),
       Element(2, Tags2("amenity", "toilets", "name", "Gate 1"), None, None,
               [lat |-> 20, lon |-> 73]) >>,
    << Element(3, Tags1("amenity", "kiosk"), 19, 72, NoCenter),
       Element(4, Tags1("amenity", "toilets"), None, None, NoCenter),
       Element(5, Tags2("railway", "ticket_validator", "amenity", "kiosk"), 19, 73,
               NoCenter),
       Element(6, EmptyMap, 21, 72, NoCenter),
       Element(7, Tags1("railway", "platform"), 19, 72, NoCenter),
       Element(8, Tags1("amenity", "kiosk"), 20, 72, NoCenter) >> }

\* what the four endpoints do during one query: the first k fail in one
\* way, the others answer with one body
QueryOutcomes ==
  {[i \in 1..Len(_OVERPASS_URLS) |-> IF i <= k THEN Failure(kind) ELSE Reply(body)] :
     k \in 0..Len(_OVERPASS_URLS), kind \in FailureKinds, body \in RawResponses}

\* the operations of one call on the world outside, in order
Posts(q) == [i \in 1..Len(q.contacted) |-> "post"]

Call(station_key, force_refresh, ops, result) ==
  [station_key |-> station_key, force_refresh |-> force_refresh, ops |-> ops,
   status |-> result.status, result |-> result]

Returned(payload) == [status |-> "returned", payload |-> payload]

Raised(exception) == [status |-> "raised", exception |-> exception]

\* os.path.exists(cache_file) is read only when force_refresh is false
ExistsTest(force_refresh) == IF force_refresh THEN <<>> ELSE <<"exists">>

\* lines 177-178
RejectStation ==
  /\ pc = "serve"
  /\ \E station_key \in StationKeys \ DOMAIN STATIONS : \E force_refresh \in BOOLEAN :
       last_call' = Call(station_key, force_refresh, <<>>, Raised("ValueError"))
  /\ UNCHANGED <<cache, clock, stored, pc>>
  /\ UNCHANGED <<graph, start, goal, path>>
  /\ UNCHANGED spVars /\ UNCHANGED buildVars
  /\ UNCHANGED <<origin, dest, origin_node, dest_node, highway_nodes, all_nodes,
                 hybrid_origin_node, hybrid_dest_node, use_highways, response,
                 events, attempts>>
  /\ UNCHANGED reqVars /\ UNCHANGED overpassVars

\* lines 182-184
ServeFromCache ==
  /\ pc = "serve"
  /\ \E station_key \in DOMAIN STATIONS :
       /\ station_key \in DOMAIN cache
       /\ last_call' = Call(station_key, FALSE, <<"exists", "read">>,
                            Returned(json_load(cache[station_key])))
  /\ UNCHANGED <<cache, clock, stored, pc>>
  /\ UNCHANGED <<graph, start, goal, path>>
  /\ UNCHANGED spVars /\ UNCHANGED buildVars
  /\ UNCHANGED <<origin, dest, origin_node, dest_node, highway_nodes, all_nodes,
                 hybrid_origin_node, hybrid_dest_node, use_highways, response,
                 events, attempts>>
  /\ UNCHANGED reqVars /\ UNCHANGED overpassVars

\* lines 186-201, the query answered
Refresh ==
  /\ pc = "serve" /\ clock < MaxRefreshes
  /\ \E station_key \in DOMAIN STATIONS : \E force_refresh \in BOOLEAN :
     \E outcomes \in QueryOutcomes :
       LET raw        == _overpass_query(outcomes)
           cfg        == STATIONS[station_key]
           facilities == _classify_and_name(raw.data, cfg.prefix)
           payload    == Payload(station_key, clock + 1, facilities)
       IN /\ force_refresh \/ station_key \notin DOMAIN cache
          /\ raw.status = "returned"
          /\ cache' = Put(cache, station_key, json_dump(payload))
          /\ stored' = Put(stored, station_key, payload)
          /\ last_call' = Call(station_key, force_refresh,
                               ExistsTest(force_refresh) \o Posts(raw) \o <<"write">>,
                               Returned(payload))
  /\ clock' = clock + 1
  /\ UNCHANGED pc
  /\ UNCHANGED <<graph, start, goal, path>>
  /\ UNCHANGED spVars /\ UNCHANGED buildVars
  /\ UNCHANGED <<origin, dest, origin_node, dest_node, highway_nodes, all_nodes,
                 hybrid_origin_node, hybrid_dest_node, use_highways, response,
                 events, attempts>>
  /\ UNCHANGED reqVars /\ UNCHANGED overpassVars

\* RefreshFails that removes the station's file
RefreshFailsDropsCache ==
  /\ pc = "serve"
  /\ \E station_key \in DOMAIN STATIONS : \E force_refresh \in BOOLEAN :
     \E outcomes \in QueryOutcomes :
       LET raw == _overpass_query(outcomes)
       IN /\ force_refresh \/ station_key \notin DOMAIN cache
          /\ raw.status = "raised"
          /\ cache' = [s \in DOMAIN cache \ {station_key} |-> cache[s]]
          /\ last_call' = Call(station_key, force_refresh,
                               ExistsTest(force_refresh) \o Posts(raw),
                               [status |-> "raised", exception |-> raw.exception,
                                last_error |-> raw.last_error])
  /\ UNCHANGED <<clock, stored, pc>>
  /\ UNCHANGED <<graph, start, goal, path>>
  /\ UNCHANGED spVars /\ UNCHANGED buildVars
  /\ UNCHANGED <<origin, dest, origin_node, dest_node, highway_nodes, all_nodes,
                 hybrid_origin_node, hybrid_dest_node, use_highways, response,
                 events, attempts>>
  /\ UNCHANGED reqVars /\ UNCHANGED overpassVars

\* line 187 raises: every endpoint failed
RefreshFails ==
  /\ pc = "serve"
  /\ \E station_key \in DOMAIN STATIONS : \E force_refresh \in BOOLEAN :
     \E outcomes \in QueryOutcomes :
       LET raw == _overpass_query(outcomes)
       IN /\ force_refresh \/ station_key \notin DOMAIN cache
          /\ raw.status = "raised"
          /\ last_call' = Call(station_key, force_refresh,
                               ExistsTest(force_refresh) \o Posts(raw),
                               [status |-> "raised", exception |-> raw.exception,
                                last_error |-> raw.last_error])
  /\ UNCHANGED <<cache, clock, stored, pc>>
  /\ UNCHANGED <<graph, start, goal, path>>
  /\ UNCHANGED spVars /\ UNCHANGED buildVars
  /\ UNCHANGED <<origin, dest, origin_node, dest_node, highway_nodes, all_nodes,
                 hybrid_origin_node, hybrid_dest_node, use_highways, response,
                 events, attempts>>
  /\ UNCHANGED reqVars /\ UNCHANGED overpassVars

\* the data directory is empty and no call was made
InitFacilities ==
  /\ cache = EmptyMap
  /\ clock = 0
  /\ last_call = NoCall
  /\ stored = EmptyMap
  /\ pc = "serve"
  /\ NoOverpass
  /\ data = <<>>
  /\ NoBuild
  /\ NoNav
  /\ graph = EmptyMap
  /\ path = <<>>
  /\ dist = EmptyMap /\ prev = EmptyMap /\ heap = {} /\ visited = {}
  /\ popped = <<>>
  /\ start = None
  /\ goal = None

NextFacilities == RejectStation \/ ServeFromCache \/ Refresh \/ RefreshFails

SpecFacilities == InitFacilities /\ [][NextFacilities]_vars

-----------------------------------------------------------------------------
(* Properties of the facilities cache, under SpecFacilities.               *)

\* C27: a call of get_or_refresh_facilities with force_refresh false for a
\* station with a cache entry returns the cached payload and makes no fetch;
\* any other call for a supported station fetches, stores the new payload
\* and returns it, so that a later call without force returns that payload;
\* an unsupported station key is rejected before any fetch and any access to
\* the cache; a fetch that fails leaves the cache as it was.
C27_CacheOrRefresh ==
  [][LET c  == last_call'
         st == c.station_key
     IN IF st \notin DOMAIN STATIONS
        THEN /\ c.status = "raised" /\ c.result.exception = "ValueError"
             /\ c.ops = <<>>
             /\ UNCHANGED <<cache, stored>>
        ELSE IF ~c.force_refresh /\ st \in DOMAIN cache
        THEN /\ c.status = "returned"
             /\ c.result.payload = json_load(cache[st])
             /\ c.result.payload = stored[st]
             /\ c.ops = <<"exists", "read">>
             /\ UNCHANGED <<cache, stored>>
        ELSE /\ "post" \in Range(c.ops)
             /\ "read" \notin Range(c.ops)
             /\ IF c.status = "returned"
                THEN /\ c.ops[Len(c.ops)] = "write"
                     /\ st \in DOMAIN cache'
                     /\ json_load(cache'[st]) = c.result.payload
                     /\ stored' = Put(stored, st, c.result.payload)
                     /\ c.result.payload.station = st
                     /\ \A other \in DOMAIN cache \ {st} :
                          other \in DOMAIN cache' /\ cache'[other] = cache[other]
                ELSE /\ c.result.exception = "all_endpoints_failed"
                     /\ Len(SelectSeq(c.ops, LAMBDA op : op = "post")) = Len(_OVERPASS_URLS)
                     /\ "write" \notin Range(c.ops)
                     /\ UNCHANGED <<cache, stored>>]_vars

\* a call without force was served the payload of an earlier refresh, which
\* has facilities, while a refresh of the other station was made since
C27_Witness ==
  /\ last_call.status = "returned" /\ ~last_call.force_refresh
  /\ last_call.ops = <<"exists", "read">>
  /\ last_call.result.payload.count > 1
  /\ last_call.result.payload.updated_at = Timestamp(1)
  /\ clock = 2

\* a forced refresh failed and the station's entry is still there
C27_FailedRefreshKeepsEntry ==
  /\ last_call.status = "raised" /\ last_call.force_refresh
  /\ last_call.station_key \in DOMAIN cache
  /\ json_load(cache[last_call.station_key]).count > 0

-----------------------------------------------------------------------------
(* Termination of _shortest_path, under SpecSPLive.                        *)

\* C28: on every graph of the model, with cycles, self-loops, parallel edges
\* and stale frontier entries, _shortest_path settles each node at most once
\* and comes to its end, the frontier empty or the goal popped.
C28_Terminates ==
  /\ [](NoRepeat(popped) /\ Range(popped) = visited)
  /\ <>[](pc = "done" /\ (heap = {} \/ goal \in visited))

\* the search is over with the frontier empty and the goal not reached, on a
\* graph with a self-loop on the start node and a cycle through it
C28_Witness ==
  /\ pc = "done" /\ heap = {} /\ goal \notin visited
  /\ HasEntry(graph, start, start)
  /\ \E v \in visited \ {start} : HasEntry(graph, start, v) /\ HasEntry(graph, v, start)

\* the search is over with the frontier empty, after parallel entries of
\* which the dearer came first: its frontier entry went stale and was dropped
C28_StaleEntryDropped ==
  /\ pc = "done" /\ heap = {}
  /\ \E v \in visited \ {start} :
       /\ Len(Adj(graph, start)) >= 2
       /\ Adj(graph, start)[1][1] = v /\ Adj(graph, start)[2][1] = v
       /\ Adj(graph, start)[1][2] > Adj(graph, start)[2][2]

====
